---- MODULE Spec2Model ----
(***************************************************************************)
(* Verification model of parts of the moq repository (rust).               *)
(*                                                                         *)
(*   Part I   - lite/priority.rs : PriorityQueue / PriorityState           *)
(*   Part II  - session.rs       : Session::connect / Session::accept      *)
(*   Part III - ietf/session.rs, ietf/control.rs : the control stream      *)
(*   Part IV  - ietf/subscriber.rs : subscriptions and group streams       *)
(*   Part V   - the Origin and libmoq/origin.rs : the announce stream       *)
(*   Part VI  - coding/, lite/subscribe.rs, ietf/subscribe.rs : the codec   *)
(*   Part VII - libmoq/src/ffi.rs : the FFI boundary                       *)
(*   Part VIII - ietf/control.rs : the request ids                         *)
(*   Part IX  - moq-relay connection.rs, metrics.rs : the connections      *)
(*   Part X   - libmoq/src/session.rs, id.rs : the session tasks           *)
(*   Part XI  - coding/reader.rs : Reader::read_exact                      *)
(*                                                                         *)
(* Every part has its own specification; the variables of the other parts  *)
(* stay at their initial values.                                           *)
(***************************************************************************)
EXTENDS Integers, Sequences, FiniteSets, TLC

VARIABLES
    \* ---- Part I: PriorityState (priority.rs:68-77) and the handles
    vec,        \* Vec<PriorityItem>: the sorted top set, index 0 = highest priority
    overflow,   \* BinaryHeap<PriorityItem>: the overflow items (as a set of items)
    indexes,    \* HashMap<usize, (Location, watch::Sender<u8>)> + the receiver's "changed" flag
    next_id,    \* next id to hand out
    \* ---- Part II: the handshake on the setup stream
    hsOffer,    \* client.versions: the ordered list the client offers
    hsC2S,      \* Client Setup on the wire ("none" until written)
    hsS2C,      \* Server Setup on the wire, "none", or "reset" (stream dropped)
    hsClient,   \* progress and outcome of Session::connect_with_stats
    hsServer,   \* progress and outcome of Session::accept_with_stats
    \* ---- Part III: one endpoint of an IETF session (ietf::run)
    ctlOut,     \* Control::send / Control::run: the outgoing control messages
    ctlIn,      \* the incoming side of the control stream and run_control_read
    ctlRun,     \* outcome of the select! in ietf::run
    ctlClose,   \* the session.close call made by ietf::start
    \* ---- Part IV: the Subscriber of an IETF session (subscriber.rs:16-52)
    subscribes, \* State::subscribes: request id -> TrackState (present, alias)
    aliases,    \* State::aliases: track alias -> request id
    publishes,  \* State::publishes: the request ids of accepted PUBLISH messages
    subOrigin,  \* Subscriber::origin is Some (subscriber.rs:47)
    broadcasts, \* State::broadcasts: BroadcastState::count of the namespace (0: no entry)
    broadcastTasks, \* number of running run_broadcast tasks of the namespace
    tracks,     \* the TrackProducer made for each request id, as its consumers see it
    subTasks,   \* request ids whose run_subscribe task is running
    subNextId,  \* Control: the next request id of this endpoint
    streams,    \* the incoming unidirectional streams and their run_uni_stream tasks
    subRun,     \* "running", or the error that ended Subscriber::run / run_control_read
    subSent,    \* the message the subscriber handed to Control::send last
    consumers,  \* request id -> the TrackConsumers alive on the track of that request
    requested,  \* the TrackConsumers alive on the track waiting in requested_track (0: none waits)
    \* ---- Part V: an Origin and one listener of its announcements
    originActive,   \* the Origin: path -> the broadcast published there (NoBroadcast: none)
    originNext,     \* the next broadcast to be produced
    originConsumer, \* the OriginConsumer of the listener: "none", or the announcements it holds
    announced,      \* libmoq Origin::announced: the entries handed to on_announce, in order
    \* ---- Part VI: one value taken through encode and decode
    codecIn,    \* the value to encode and the version in force
    codecWire,  \* what encode wrote
    codecOut,   \* what decode returned
    codecPc,    \* "start", "encoded", "decoded"
    \* ---- Part VII: one call through the libmoq FFI boundary (ffi.rs:32-42)
    ffiRet,     \* what the closure given to ffi::enter does: the value it returns, or a panic
    ffiCode,    \* the i32 handed back to the C caller
    ffiPc,      \* "call", "returned"
    \* ---- Part VIII: the request ids of one endpoint (ControlState, control.rs:11-15)
    request_id_next,   \* ControlState::request_id_next
    request_id_max,    \* ControlState::request_id_max
    reqClient,  \* Control::new: whether this endpoint is the client
    reqPc,      \* task -> where it is in Control::next_request_id
    reqNotified,\* task -> whether the Notified future of the task has been woken
    reqResult,  \* task -> what its last call of next_request_id returned
    reqHanded,  \* the request ids handed out so far
    reqClosed,  \* whether the receiver of the control channel is gone (tx.closed())
    \* ---- Part IX: the connections of the relay (moq-relay connection.rs, metrics.rs)
    active_connections, \* MetricsTracker::active_connections
    active_subscribers, \* MetricsTracker::active_subscribers
    connection_errors,  \* MetricsTracker::connection_errors
    connPc,     \* connection -> where its Connection::run is
    connSubscriber, \* connection -> is_subscriber of its run (connection.rs:68)
    connResult, \* connection -> what its run returned
    \* ---- Part X: the session tasks of libmoq (libmoq/src/session.rs, id.rs)
    taskSlab,   \* Session::task: the entries of the slab and its next free key
    taskPc,     \* task -> "none", "running", "ending", "done"
    taskId,     \* task -> the Id that connect returned for it
    taskRes,    \* task -> what its select! gave
    taskHeld,   \* task -> whether the caller still holds the handle of the task
    \* ---- Part XI: Reader::read_exact on a receive stream (coding/reader.rs)
    rdStream,   \* the stream: the bytes not yet read, the next byte, how it ended
    rdBuffer,   \* Reader::buffer: the bytes read ahead of the call
    rdSize,     \* the size given to read_exact
    rdBuf,      \* buf: the bytes collected by the call
    rdPc,       \* "call", "loop", "returned"
    rdResult,   \* what read_exact returned
    rdLast      \* what the last read_buf of the loop returned

prioVars == <<vec, overflow, indexes, next_id>>
hsVars == <<hsOffer, hsC2S, hsS2C, hsClient, hsServer>>
ctlVars == <<ctlOut, ctlIn, ctlRun, ctlClose>>
subVars == <<subOrigin, subscribes, aliases, publishes, broadcasts, broadcastTasks, tracks,
             subTasks, subNextId, streams, subRun, subSent, consumers, requested>>
originVars == <<originActive, originNext, originConsumer, announced>>
codecVars == <<codecIn, codecWire, codecOut, codecPc>>
ffiVars == <<ffiRet, ffiCode, ffiPc>>
reqVars == <<request_id_next, request_id_max, reqClient, reqPc, reqNotified, reqResult,
             reqHanded, reqClosed>>
relayVars == <<active_connections, active_subscribers, connection_errors, connPc,
               connSubscriber, connResult>>
taskVars == <<taskSlab, taskPc, taskId, taskRes, taskHeld>>
readVars == <<rdStream, rdBuffer, rdSize, rdBuf, rdPc, rdResult, rdLast>>
vars == <<vec, overflow, indexes, next_id,
          hsOffer, hsC2S, hsS2C, hsClient, hsServer,
          ctlOut, ctlIn, ctlRun, ctlClose,
          subOrigin, subscribes, aliases, publishes, broadcasts, broadcastTasks, tracks,
          subTasks, subNextId, streams, subRun, subSent, consumers, requested,
          originActive, originNext, originConsumer, announced,
          codecIn, codecWire, codecOut, codecPc,
          ffiRet, ffiCode, ffiPc,
          request_id_next, request_id_max, reqClient, reqPc, reqNotified, reqResult,
          reqHanded, reqClosed,
          active_connections, active_subscribers, connection_errors, connPc,
          connSubscriber, connResult,
          taskSlab, taskPc, taskId, taskRes, taskHeld,
          rdStream, rdBuffer, rdSize, rdBuf, rdPc, rdResult, rdLast>>

\* The variables of the other parts, for each part.
notPrioVars == <<hsVars, ctlVars, subVars, originVars, codecVars, ffiVars, reqVars, relayVars, taskVars, readVars>>
notHsVars == <<prioVars, ctlVars, subVars, originVars, codecVars, ffiVars, reqVars, relayVars, taskVars, readVars>>
notCtlVars == <<prioVars, hsVars, subVars, originVars, codecVars, ffiVars, reqVars, relayVars, taskVars, readVars>>
notSubVars == <<prioVars, hsVars, ctlVars, originVars, codecVars, ffiVars, reqVars, relayVars, taskVars, readVars>>
notOriginVars == <<prioVars, hsVars, ctlVars, subVars, codecVars, ffiVars, reqVars, relayVars, taskVars, readVars>>
notCodecVars == <<prioVars, hsVars, ctlVars, subVars, originVars, ffiVars, reqVars, relayVars, taskVars, readVars>>
notFfiVars == <<prioVars, hsVars, ctlVars, subVars, originVars, codecVars, reqVars, relayVars, taskVars, readVars>>
notReqVars == <<prioVars, hsVars, ctlVars, subVars, originVars, codecVars, ffiVars, relayVars, taskVars, readVars>>
notRelayVars == <<prioVars, hsVars, ctlVars, subVars, originVars, codecVars, ffiVars, reqVars, taskVars, readVars>>
notTaskVars == <<prioVars, hsVars, ctlVars, subVars, originVars, codecVars, ffiVars, reqVars, relayVars, readVars>>
notReadVars == <<prioVars, hsVars, ctlVars, subVars, originVars, codecVars, ffiVars, reqVars, relayVars, taskVars>>

-----------------------------------------------------------------------------
(***************************************************************************)
(* Part I - the priority queue                                             *)
(***************************************************************************)

\* priority.rs:61 is `const MAX_VEC_SIZE: usize = 255`.  The model scales the
\* capacity of the top set down; the clamped rank u8::MAX (255 in the source)
\* is scaled with it, as both are 255 in the source.
MAX_VEC_SIZE == 2
U8_MAX == MAX_VEC_SIZE

\* Inputs of insert: a low and a high track priority, group sequences up to
\* MaxGroup; MaxIds bounds the number of ids handed out.
MaxGroup == 1
MaxIds == 4

Tracks == {0, 1}
Groups == 0..MaxGroup

PriorityItem(id, track, group) == [id |-> id, track |-> track, group |-> group]

\* impl PartialEq for PriorityItem: the id is not compared.
ItemEq(a, b) == a.track = b.track /\ a.group = b.group

\* impl Ord for PriorityItem: other.track.cmp(&self.track).then(other.group.cmp(&self.group))
\* "Less" sorts first (index 0): higher track, then higher group.
ItemCmp(a, b) ==
    IF b.track < a.track THEN "Less"
    ELSE IF b.track > a.track THEN "Greater"
    ELSE IF b.group < a.group THEN "Less"
    ELSE IF b.group > a.group THEN "Greater"
    ELSE "Equal"

LocVec(i) == [tag |-> "Vec", idx |-> i]
LocOverflow == [tag |-> "Overflow", idx |-> 0]

\* usize -> u8 with unwrap_or(u8::MAX)
ToU8(idx) == IF idx <= U8_MAX THEN idx ELSE U8_MAX

\* Vec::insert(pos, item) and Vec::remove(pos), positions 0-based as in the source.
VecInsert(v, pos, item) ==
    [i \in 1..(Len(v) + 1) |->
        IF i <= pos THEN v[i] ELSE IF i = pos + 1 THEN item ELSE v[i - 1]]

VecRemove(v, pos) ==
    [i \in 1..(Len(v) - 1) |-> IF i <= pos THEN v[i] ELSE v[i + 1]]

\* slice::binary_search(&item): Ok(pos) of a matching element (any one of them
\* when several match), else Err(pos) with the insertion point that keeps the
\* vec sorted; the caller uses either as the insertion position.
BinarySearch(v, item) ==
    LET matches == {p \in 0..(Len(v) - 1) : ItemCmp(v[p + 1], item) = "Equal"}
    IN  IF matches # {} THEN matches
        ELSE {Cardinality({p \in 0..(Len(v) - 1) : ItemCmp(v[p + 1], item) = "Less"})}

\* watch::channel(initial): the receiver has seen the initial value.
NewEntry(location, initial) == [loc |-> location, val |-> initial, changed |-> FALSE]

\* Variant of update_location that stores the location but does not send on the watch.
update_location_nosend(idx, id, location) ==
    [idx EXCEPT ![id] = [loc |-> location, val |-> idx[id].val, changed |-> idx[id].changed]]

\* PriorityState::update_location: store the location and send_if_modified
\* the new priority on the item's watch.
update_location(idx, id, location) ==
    LET new_priority == IF location.tag = "Vec" THEN ToU8(location.idx) ELSE U8_MAX
    IN  [idx EXCEPT ![id] =
            [loc |-> location,
             val |-> new_priority,
             changed |-> IF idx[id].val # new_priority THEN TRUE ELSE idx[id].changed]]

\* Variant of update_indices_from that starts one position too late.
update_indices_from_late(v, idx, start) ==
    [i \in DOMAIN idx |->
        IF \E p \in (start + 1)..(Len(v) - 1) : v[p + 1].id = i
        THEN LET p == CHOOSE q \in (start + 1)..(Len(v) - 1) : v[q + 1].id = i
             IN  update_location(idx, i, LocVec(p))[i]
        ELSE idx[i]]

\* PriorityState::update_indices_from: update_location for every item of the
\* vec at position >= start (ids are distinct, so the loop is a pointwise map).
update_indices_from(v, idx, start) ==
    [i \in DOMAIN idx |->
        IF \E p \in start..(Len(v) - 1) : v[p + 1].id = i
        THEN LET p == CHOOSE q \in start..(Len(v) - 1) : v[q + 1].id = i
             IN  update_location(idx, i, LocVec(p))[i]
        ELSE idx[i]]

\* BinaryHeap::pop: the greatest element under Ord (any one of the greatest).
HeapPop(heap) ==
    {o \in heap : \A x \in heap : ItemCmp(o, x) \in {"Greater", "Equal"}}

\* PriorityState::insert, first branch: room in the vec.
InsertRoom(track, group) ==
    /\ next_id < MaxIds
    /\ Len(vec) < MAX_VEC_SIZE
    /\ LET id == next_id
           item == PriorityItem(id, track, group)
       IN  \E insert_pos \in BinarySearch(vec, item) :
             LET v1 == VecInsert(vec, insert_pos, item)
                 i1 == (id :> NewEntry(LocVec(insert_pos), ToU8(insert_pos))) @@ indexes
             IN  /\ vec' = v1
                 /\ indexes' = update_indices_from(v1, i1, insert_pos + 1)
                 /\ next_id' = id + 1
    /\ UNCHANGED overflow
    /\ UNCHANGED notPrioVars

\* PriorityState::insert, second branch: vec full, lower priority than the lowest.
InsertOverflow(track, group) ==
    /\ next_id < MaxIds
    /\ Len(vec) >= MAX_VEC_SIZE
    /\ LET id == next_id
           item == PriorityItem(id, track, group)
           lowest_in_vec == vec[Len(vec)]
       IN  /\ ItemCmp(item, lowest_in_vec) = "Greater"
           /\ overflow' = overflow \cup {item}
           /\ indexes' = (id :> NewEntry(LocOverflow, U8_MAX)) @@ indexes
           /\ next_id' = id + 1
    /\ UNCHANGED vec
    /\ UNCHANGED notPrioVars

\* PriorityState::insert, third branch: vec full, replace the lowest.
InsertReplace(track, group) ==
    /\ next_id < MaxIds
    /\ Len(vec) >= MAX_VEC_SIZE
    /\ LET id == next_id
           item == PriorityItem(id, track, group)
           lowest_in_vec == vec[Len(vec)]
       IN  /\ ItemCmp(item, lowest_in_vec) # "Greater"
           /\ LET removed == vec[Len(vec)]
                  v0 == SubSeq(vec, 1, Len(vec) - 1)
                  i0 == update_location(indexes, removed.id, LocOverflow)
              IN  \E insert_pos \in BinarySearch(v0, item) :
                    LET v1 == VecInsert(v0, insert_pos, item)
                        i1 == (id :> NewEntry(LocVec(insert_pos), ToU8(insert_pos))) @@ i0
                    IN  /\ vec' = v1
                        /\ overflow' = overflow \cup {removed}
                        /\ indexes' = update_indices_from(v1, i1, insert_pos + 1)
                        /\ next_id' = id + 1
    /\ UNCHANGED notPrioVars

\* PriorityState::remove (called by Drop for PriorityHandle), item in the vec.
RemoveVec(id) ==
    /\ id \in DOMAIN indexes
    /\ indexes[id].loc.tag = "Vec"
    /\ LET pos == indexes[id].loc.idx
           i0 == [i \in DOMAIN indexes \ {id} |-> indexes[i]]
           v0 == VecRemove(vec, pos)
       IN  IF overflow # {}
           THEN \E overflow_item \in HeapPop(overflow) :
                  LET v1 == Append(v0, overflow_item)
                      i1 == update_location(i0, overflow_item.id, LocVec(Len(v1) - 1))
                  IN  /\ vec' = v1
                      /\ overflow' = overflow \ {overflow_item}
                      /\ indexes' = update_indices_from(v1, i1, pos)
           ELSE /\ vec' = v0
                /\ overflow' = overflow
                /\ indexes' = update_indices_from(v0, i0, pos)
    /\ UNCHANGED next_id
    /\ UNCHANGED notPrioVars

\* Variant of RemoveOverflow that forgets the handle but leaves the heap as it is.
RemoveOverflowKeeps(id) ==
    /\ id \in DOMAIN indexes
    /\ indexes[id].loc.tag # "Vec"
    /\ indexes' = [i \in DOMAIN indexes \ {id} |-> indexes[i]]
    /\ UNCHANGED <<vec, overflow, next_id>>
    /\ UNCHANGED notPrioVars

\* PriorityState::remove, item in the overflow: rebuild the heap without it.
RemoveOverflow(id) ==
    /\ id \in DOMAIN indexes
    /\ indexes[id].loc.tag # "Vec"
    /\ overflow' = {item \in overflow : item.id # id}
    /\ indexes' = [i \in DOMAIN indexes \ {id} |-> indexes[i]]
    /\ UNCHANGED <<vec, next_id>>
    /\ UNCHANGED notPrioVars

\* PriorityHandle::current: borrow_and_update marks the value as seen.
Current(id) ==
    /\ id \in DOMAIN indexes
    /\ indexes[id].changed
    /\ indexes' = [indexes EXCEPT ![id].changed = FALSE]
    /\ UNCHANGED <<vec, overflow, next_id>>
    /\ UNCHANGED notPrioVars

PrioNext ==
    \/ \E t \in Tracks, g \in Groups : InsertRoom(t, g)
    \/ \E t \in Tracks, g \in Groups : InsertOverflow(t, g)
    \/ \E t \in Tracks, g \in Groups : InsertReplace(t, g)
    \/ \E id \in 0..(MaxIds - 1) : RemoveVec(id)
    \/ \E id \in 0..(MaxIds - 1) : RemoveOverflow(id)
    \/ \E id \in 0..(MaxIds - 1) : Current(id)

-----------------------------------------------------------------------------
(***************************************************************************)
(* Part I - properties                                                     *)
(***************************************************************************)

\* All items currently enqueued (top set and overflow).
Enqueued == {vec[i] : i \in 1..Len(vec)} \cup overflow

\* The rank an item reports: the value held by its watch channel.
Rank(item) == indexes[item.id].val

\* Where the item really is: its position in the vec, or u8::MAX in the overflow.
ActualRank(v, id) ==
    IF \E p \in 0..(Len(v) - 1) : v[p + 1].id = id
    THEN ToU8(CHOOSE p \in 0..(Len(v) - 1) : v[p + 1].id = id)
    ELSE U8_MAX

\* Positions an item may take when all enqueued items are sorted by
\* (track desc, group desc): after every strictly higher item, and before
\* every strictly lower one (items with equal keys may come in any order).
FirstPos(x) == Cardinality({y \in Enqueued : ItemCmp(y, x) = "Less"})
LastPos(x) == Cardinality({y \in Enqueued : y # x /\ ItemCmp(y, x) \in {"Less", "Equal"}})

\* C1: every item among the top MAX_VEC_SIZE (it is held in the top set, or its
\* sorted position is below MAX_VEC_SIZE whatever the order of equal keys)
\* reports a rank equal to its 0-based position in the order of all enqueued
\* items sorted by track priority descending, then group sequence descending.
C1_RankIsSortedPosition ==
    \A x \in Enqueued :
        (indexes[x.id].loc.tag = "Vec" \/ LastPos(x) < MAX_VEC_SIZE)
            => (FirstPos(x) <= Rank(x) /\ Rank(x) <= LastPos(x))

\* C2: ranks are monotone in the key: if A has a higher track priority than B,
\* or the same track priority and a higher group sequence, then
\* rank(A) <= rank(B), also when one or both are in the overflow.
C2_RankMonotone ==
    \A a \in Enqueued, b \in Enqueued :
        ItemCmp(a, b) = "Less" => Rank(a) <= Rank(b)

\* C3: when an item of the top set is removed while overflow items exist, the
\* overflow item promoted into the top set is one with the highest priority
\* among all overflow items.
C3_PromotesHighestOverflow ==
    [][ (/\ \E id \in DOMAIN indexes : id \notin DOMAIN indexes' /\ indexes[id].loc.tag = "Vec"
         /\ overflow # {})
        => (/\ overflow \ overflow' # {}
            /\ \A o \in overflow \ overflow' :
                 /\ \E p \in 1..Len(vec') : vec'[p] = o
                 /\ \A x \in overflow : ItemCmp(o, x) \in {"Less", "Equal"}) ]_vars

\* C4: whenever n items are enqueued, exactly max(0, n - MAX_VEC_SIZE) of them
\* report the clamped rank u8::MAX; the others report ranks below it.
C4_OverflowCount ==
    LET n == Cardinality(DOMAIN indexes)
        clamped == {id \in DOMAIN indexes : indexes[id].val = U8_MAX}
    IN  /\ Cardinality(clamped) = (IF n > MAX_VEC_SIZE THEN n - MAX_VEC_SIZE ELSE 0)
        /\ \A id \in DOMAIN indexes \ clamped : indexes[id].val \in 0..(MAX_VEC_SIZE - 1)
        /\ Cardinality(Enqueued) = n

\* C4 witness: the top set is full, items are in the overflow, and a handle
\* has been dropped before.
C4_Witness ==
    /\ Len(vec) = MAX_VEC_SIZE
    /\ overflow # {}
    /\ Cardinality(DOMAIN indexes) < next_id

\* C5: every item that stays enqueued and whose rank changes in an insert or a
\* remove (shift in the top set, demotion to the overflow, promotion from it)
\* has an unseen change on its watch afterwards, and the watch holds the new rank.
C5_RankChangeNotified ==
    [][ \A id \in DOMAIN indexes \cap DOMAIN indexes' :
          ActualRank(vec, id) # ActualRank(vec', id)
            => (indexes'[id].changed /\ indexes'[id].val = ActualRank(vec', id)) ]_vars

\* C5 witness: an item demoted to the overflow and an item shifted in the top
\* set both have a pending notification carrying their current rank.
C5_Witness ==
    /\ \E id \in DOMAIN indexes :
         /\ indexes[id].changed
         /\ indexes[id].loc.tag = "Overflow"
         /\ indexes[id].val = U8_MAX
    /\ \E id \in DOMAIN indexes :
         /\ indexes[id].changed
         /\ indexes[id].loc.tag = "Vec"
         /\ indexes[id].val = ActualRank(vec, id)

C34_EmptyAfterAllDropped ==
    [][DOMAIN indexes = {}
           => /\ vec = <<>>
              /\ overflow = {}
              /\ \A id \in DOMAIN indexes' : indexes'[id].val = 0]_vars

\* C34 witness: more items than the top set holds were inserted and all their
\* handles were dropped.
C34_Witness ==
    /\ DOMAIN indexes = {}
    /\ next_id > MAX_VEC_SIZE
    /\ next_id < MaxIds

\* C39: the location recorded for each live id is where the item is: Vec(i)
\* exactly when the item is at position i of the vec, Overflow exactly when it
\* is in the overflow heap; every item held has a live id. So remove finds the
\* item of the id at the recorded place.
C39_LocationIsExact ==
    /\ \A id \in DOMAIN indexes :
         LET loc == indexes[id].loc
         IN  /\ loc.tag = "Vec"
                 => /\ loc.idx < Len(vec)
                    /\ vec[loc.idx + 1].id = id
                    /\ \A o \in overflow : o.id # id
             /\ loc.tag = "Overflow"
                 => /\ Cardinality({o \in overflow : o.id = id}) = 1
                    /\ \A i \in 1..Len(vec) : vec[i].id # id
    /\ \A i \in 1..Len(vec) :
         /\ vec[i].id \in DOMAIN indexes
         /\ indexes[vec[i].id].loc = LocVec(i - 1)
    /\ \A o \in overflow : o.id \in DOMAIN indexes

\* C39 witness: after a remove, an item promoted from the overflow is last in
\* the full top set and other items are still in the overflow.
C39_Witness ==
    /\ Len(vec) = MAX_VEC_SIZE
    /\ overflow # {}
    /\ Cardinality(DOMAIN indexes) < next_id
    /\ \E id \in DOMAIN indexes :
         /\ indexes[id].loc = LocVec(Len(vec) - 1)
         /\ indexes[id].changed
         /\ id > vec[1].id

-----------------------------------------------------------------------------
(***************************************************************************)
(* Part II - session setup and version negotiation (session.rs)            *)
(***************************************************************************)

\* Version codes.  The numeric values are set in lite/version.rs and
\* ietf/version.rs; the model uses small numbers in the same order.
IetfDraft14 == 2
LiteDraft01 == 3
LiteDraft02 == 4
\* Versions this implementation does not know, one below and one above.
OtherLow == 1
OtherHigh == 5

\* Option::None of find (session.rs:133-138) and of a version not read yet.
NoVersion == 0

\* session.rs:21-25
VERSIONS == <<LiteDraft02, LiteDraft01, IetfDraft14>>

AllVersions == {OtherLow, IetfDraft14, LiteDraft01, LiteDraft02, OtherHigh}

\* Longest version list a client offers.
MaxOffer == 2

Offers == UNION {[1..n -> AllVersions] : n \in 1..MaxOffer}

\* lite::Version::try_from(coding::Version) and ietf::Version::try_from.
LiteTryFrom(v) == v \in {LiteDraft01, LiteDraft02}
IetfTryFrom(v) == v = IetfDraft14

\* VERSIONS.contains(v)
Contains(list, v) == \E i \in 1..Len(list) : list[i] = v

\* Variant of Find that returns the last matching version of the list.
RECURSIVE FindLast(_)
FindLast(versions) ==
    IF versions = <<>> THEN NoVersion
    ELSE IF Contains(VERSIONS, versions[Len(versions)]) THEN versions[Len(versions)]
    ELSE FindLast(SubSeq(versions, 1, Len(versions) - 1))

\* client.versions.iter().find(|v| VERSIONS.contains(v)).copied()
RECURSIVE Find(_)
Find(versions) ==
    IF versions = <<>> THEN NoVersion
    ELSE IF Contains(VERSIONS, Head(versions)) THEN Head(versions)
    ELSE Find(Tail(versions))

HsParty(pc, err, dialect, version) ==
    [pc |-> pc, err |-> err, dialect |-> dialect, version |-> version]

\* Variant of ClientDispatch that takes everything but Draft02 for the IETF dialect.
ClientDispatchDraft02Only(version, params_ok) ==
    IF version = LiteDraft02 THEN HsParty("connected", "none", "lite", version)
    ELSE IF params_ok THEN HsParty("connected", "none", "ietf", version)
    ELSE HsParty("failed", "Decode", "none", version)

\* connect_with_stats, session.rs:69-105: start the dialect of server.version.
\* params_ok: whether ietf::Parameters::decode accepts the server's parameters.
ClientDispatch(version, params_ok) ==
    IF LiteTryFrom(version) THEN HsParty("connected", "none", "lite", version)
    ELSE IF IetfTryFrom(version) THEN
        IF params_ok THEN HsParty("connected", "none", "ietf", version)
        ELSE HsParty("failed", "Decode", "none", version)
    ELSE HsParty("failed", "Version", "none", version)

\* accept_with_stats, session.rs:156-192: start the dialect of the chosen version.
ServerDispatch(version, params_ok) ==
    IF LiteTryFrom(version) THEN HsParty("connected", "none", "lite", version)
    ELSE IF IetfTryFrom(version) THEN
        IF params_ok THEN HsParty("connected", "none", "ietf", version)
        ELSE HsParty("failed", "Decode", "none", version)
    ELSE HsParty("failed", "Version", "none", version)

HsIdle == HsParty("start", "none", "none", NoVersion)

\* What is on the setup stream in one direction.
NothingSent == [state |-> "none", versions |-> <<>>, version |-> NoVersion]
ClientSetup(versions) == [state |-> "setup", versions |-> versions, version |-> NoVersion]
ServerSetup(version) == [state |-> "setup", versions |-> <<>>, version |-> version]
StreamReset == [state |-> "reset", versions |-> <<>>, version |-> NoVersion]

\* connect_with_stats, session.rs:47-64: open the stream, write the Client Setup.
ClientSendSetup ==
    /\ hsClient.pc = "start"
    /\ hsC2S' = ClientSetup(hsOffer)
    /\ hsClient' = [hsClient EXCEPT !.pc = "wait_server"]
    /\ UNCHANGED <<hsOffer, hsS2C, hsServer>>
    /\ UNCHANGED notHsVars

\* connect_with_stats: open_bi or the write fails (session.rs:47, 64).
ClientTransportError ==
    /\ hsClient.pc = "start"
    /\ hsClient' = HsParty("failed", "Transport", "none", NoVersion)
    /\ UNCHANGED <<hsOffer, hsC2S, hsS2C, hsServer>>
    /\ UNCHANGED notHsVars

\* connect_with_stats, session.rs:66-105: read the Server Setup and dispatch.
ClientRecvServerSetup ==
    /\ hsClient.pc = "wait_server"
    /\ hsS2C.state = "setup"
    /\ \E params_ok \in BOOLEAN : hsClient' = ClientDispatch(hsS2C.version, params_ok)
    /\ UNCHANGED <<hsOffer, hsC2S, hsS2C, hsServer>>
    /\ UNCHANGED notHsVars

\* connect_with_stats, session.rs:66: reader.decode fails because the server
\* gave up the stream without a Server Setup: read_buf reports an error
\* (Error::Transport) or the end of the stream (Error::Decode(Short)).
ClientReadFails ==
    /\ hsClient.pc = "wait_server"
    /\ hsS2C.state = "reset"
    /\ \E e \in {"Transport", "Decode"} : hsClient' = HsParty("failed", e, "none", NoVersion)
    /\ UNCHANGED <<hsOffer, hsC2S, hsS2C, hsServer>>
    /\ UNCHANGED notHsVars

\* accept_with_stats, session.rs:128-192, when no offered version is supported:
\* returns Error::Version before anything is written; the stream is dropped.
ServerRejects ==
    /\ hsServer.pc = "start"
    /\ hsC2S.state = "setup"
    /\ Find(hsC2S.versions) = NoVersion
    /\ hsServer' = HsParty("failed", "Version", "none", NoVersion)
    /\ hsS2C' = StreamReset
    /\ UNCHANGED <<hsOffer, hsC2S, hsClient>>
    /\ UNCHANGED notHsVars

\* accept_with_stats, session.rs:128-192: choose the version, write the
\* Server Setup, start the dialect.
ServerAccepts ==
    /\ hsServer.pc = "start"
    /\ hsC2S.state = "setup"
    /\ Find(hsC2S.versions) # NoVersion
    /\ LET version == Find(hsC2S.versions)
       IN  /\ hsS2C' = ServerSetup(version)
           /\ \E params_ok \in BOOLEAN : hsServer' = ServerDispatch(version, params_ok)
    /\ UNCHANGED <<hsOffer, hsC2S, hsClient>>
    /\ UNCHANGED notHsVars

\* accept_with_stats: accept_bi or reading the Client Setup fails (session.rs:128-129).
ServerTransportError ==
    /\ hsServer.pc = "start"
    /\ hsServer' = HsParty("failed", "Transport", "none", NoVersion)
    /\ hsS2C' = StreamReset
    /\ UNCHANGED <<hsOffer, hsC2S, hsClient>>
    /\ UNCHANGED notHsVars

HsNext ==
    \/ ClientSendSetup
    \/ ClientTransportError
    \/ ClientRecvServerSetup
    \/ ClientReadFails
    \/ ServerRejects
    \/ ServerAccepts
    \/ ServerTransportError

-----------------------------------------------------------------------------
(***************************************************************************)
(* Part III - the control stream of an IETF session                        *)
(* (ietf/session.rs, ietf/control.rs)                                      *)
(***************************************************************************)

\* Bounds: messages handed to Control::send, messages sent by the peer.
MaxSend == 2
MaxInbound == 2

\* Kinds of outgoing messages (enough to tell two messages apart).
OutKinds == {"Subscribe", "Unsubscribe"}

\* Kinds of incoming messages: three with a handler, one the code rejects as
\* unsupported, and an id the match does not know.
InKinds == {"Subscribe", "MaxRequestId", "PublishNamespaceDone", "PublishOk", "Unknown"}

\* An incoming message: its id, whether the declared size is longer than what
\* the decoder consumes, and whether decode_msg accepts the body.
InMsg(id, trailing, decodes) == [id |-> id, trailing |-> trailing, decodes |-> decodes]
InMsgs ==
    {InMsg(id, FALSE, TRUE) : id \in InKinds}
        \cup {InMsg("Subscribe", TRUE, TRUE), InMsg("Subscribe", FALSE, FALSE),
              InMsg("PublishNamespaceDone", TRUE, TRUE)}

Running == [result |-> "running", by |-> "none"]
NotClosed == [called |-> FALSE, code |-> 0, err |-> "none"]

\* The error codes of the wire protocol (spec, section 6, table of codes).
CodeOk == 0
CodeCancel == 1
CodeNotFound == 2
CodeUnauthorized == 3
CodeProtocol == 4
CodeVersion == 5
CodeDuplicate == 6
CodeStale == 7
CodeInternal == 8

\* Error::to_code: the code of each error the sources name.  Malformed or
\* unknown messages, unexpected streams and wrong sizes are Protocol; an out
\* of date group (Error::Old) is Stale; what the table does not list is
\* Internal.
ToCode(err) ==
    CASE err = "Cancel" -> CodeCancel
      [] err = "NotFound" -> CodeNotFound
      [] err = "Unauthorized" -> CodeUnauthorized
      [] err \in {"Decode", "UnexpectedMessage", "UnexpectedStream", "WrongSize"} -> CodeProtocol
      [] err = "Version" -> CodeVersion
      [] err = "Duplicate" -> CodeDuplicate
      [] err = "Old" -> CodeStale
      [] OTHER -> CodeInternal

\* Variant of StartClose without the arm for a run that returned Ok.
StartCloseNoOkArm(result) ==
    IF result = "Transport" THEN [called |-> TRUE, code |-> 1, err |-> "none"]
    ELSE [called |-> TRUE, code |-> ToCode(result), err |-> result]

\* session.close(code, ..) in ietf::start, session.rs:32-45.
StartClose(result) ==
    IF result = "Transport" THEN [called |-> TRUE, code |-> 1, err |-> "none"]
    ELSE IF result = "Ok" THEN [called |-> TRUE, code |-> 0, err |-> "none"]
    ELSE [called |-> TRUE, code |-> ToCode(result), err |-> result]

\* Variant of ControlSendPush that puts the message at the head of the queue.
ControlSendPushFront(chan, msg) == <<msg>> \o chan

\* Control::send, control.rs:51: UnboundedSender::send appends to the channel.
ControlSendPush(chan, msg) == Append(chan, msg)

\* Control::send (control.rs:42-53), called by the publisher, the subscriber
\* and the handlers of received messages.
ControlSend(msg) ==
    /\ ctlRun.result = "running"
    /\ Len(ctlOut.handed) < MaxSend
    /\ ctlOut' = [ctlOut EXCEPT !.handed = Append(@, msg),
                                !.chan = ControlSendPush(@, msg)]
    /\ UNCHANGED <<ctlIn, ctlRun, ctlClose>>
    /\ UNCHANGED notCtlVars

\* Control::run, control.rs:59: rx.recv() takes the oldest queued message.
ControlRunRecv ==
    /\ ctlRun.result = "running"
    /\ ctlOut.writing = <<>>
    /\ ctlOut.chan # <<>>
    /\ ctlOut' = [ctlOut EXCEPT !.writing = <<Head(ctlOut.chan)>>,
                                !.chan = Tail(ctlOut.chan)]
    /\ UNCHANGED <<ctlIn, ctlRun, ctlClose>>
    /\ UNCHANGED notCtlVars

\* Control::run, control.rs:60-61: write_all puts the whole message on the stream.
ControlRunWrite ==
    /\ ctlRun.result = "running"
    /\ ctlOut.writing # <<>>
    /\ ctlOut' = [ctlOut EXCEPT !.written = @ \o ctlOut.writing,
                                !.writing = <<>>]
    /\ UNCHANGED <<ctlIn, ctlRun, ctlClose>>
    /\ UNCHANGED notCtlVars

\* Control::run, control.rs:61: write_all fails; this branch of the select! ends.
ControlRunFails ==
    /\ ctlRun.result = "running"
    /\ ctlOut.writing # <<>>
    /\ ctlRun' = [result |-> "Transport", by |-> "control_run"]
    /\ UNCHANGED <<ctlOut, ctlIn, ctlClose>>
    /\ UNCHANGED notCtlVars

\* The peer writes a control message on its side of the stream.
PeerSends(msg) ==
    /\ ctlIn.end = "open"
    /\ Len(ctlIn.stream) < MaxInbound
    /\ ctlIn' = [ctlIn EXCEPT !.stream = Append(@, msg)]
    /\ UNCHANGED <<ctlOut, ctlRun, ctlClose>>
    /\ UNCHANGED notCtlVars

\* The peer finishes the stream: at a message boundary ("fin"), or after a
\* part of a message only ("fin_partial").
PeerFinishes(how) ==
    /\ ctlIn.end = "open"
    /\ ctlIn' = [ctlIn EXCEPT !.end = how]
    /\ UNCHANGED <<ctlOut, ctlRun, ctlClose>>
    /\ UNCHANGED notCtlVars

\* What one turn of the loop of run_control_read does with a message
\* (session.rs:87-233): "continue", or the error it returns.
ReadOutcome(msg, handler_err) ==
    IF msg.id = "Unknown" THEN "UnexpectedMessage"
    ELSE IF msg.id = "PublishOk" THEN "Unsupported"
    ELSE IF ~msg.decodes THEN "Decode"
    ELSE IF handler_err # "none" THEN handler_err
    ELSE IF msg.trailing THEN "WrongSize"
    ELSE "continue"

\* Whether the message reaches its handler (publisher.recv_*, subscriber.recv_*,
\* control.max_request_id).
Dispatched(msg) == msg.id \notin {"Unknown", "PublishOk"} /\ msg.decodes

\* What the handler of a message may return: recv_publish_namespace_done
\* fails with NotFound when the namespace is not announced (subscriber.rs:131,
\* 137-139); the other handlers modelled here return Ok.
HandlerErrors(msg) ==
    IF msg.id = "PublishNamespaceDone" THEN {"none", "NotFound"} ELSE {"none"}

\* run_control_read, session.rs:81-234: one turn of the loop on the next message.
ControlReadMessage ==
    /\ ctlRun.result = "running"
    /\ ctlIn.pos < Len(ctlIn.stream)
    /\ LET msg == ctlIn.stream[ctlIn.pos + 1]
       IN  \E handler_err \in HandlerErrors(msg) :
             LET out == ReadOutcome(msg, handler_err)
             IN  /\ ctlIn' = [ctlIn EXCEPT
                        !.pos = @ + 1,
                        !.dispatched = IF Dispatched(msg) THEN Append(@, msg) ELSE @]
                 /\ ctlRun' = IF out = "continue" THEN ctlRun
                              ELSE [result |-> out, by |-> "control_read"]
    /\ UNCHANGED <<ctlOut, ctlClose>>
    /\ UNCHANGED notCtlVars

\* run_control_read, session.rs:82-85: decode_maybe at the end of the stream:
\* Ok(None) on a FIN at a message boundary, Decode(Short) on a FIN inside a message.
ControlReadFin ==
    /\ ctlRun.result = "running"
    /\ ctlIn.pos = Len(ctlIn.stream)
    /\ ctlIn.end # "open"
    /\ ctlRun' = [result |-> IF ctlIn.end = "fin" THEN "Ok" ELSE "Decode",
                  by |-> "control_read"]
    /\ ctlIn' = [ctlIn EXCEPT !.sawFin = ctlIn.end]
    /\ UNCHANGED <<ctlOut, ctlClose>>
    /\ UNCHANGED notCtlVars

\* run_control_read: the transport fails under decode_maybe / decode / read_exact.
ControlReadFails ==
    /\ ctlRun.result = "running"
    /\ ctlRun' = [result |-> "Transport", by |-> "control_read"]
    /\ UNCHANGED <<ctlOut, ctlIn, ctlClose>>
    /\ UNCHANGED notCtlVars

\* subscriber.run() ends: accept_uni failed (subscriber.rs:183-200).
SubscriberRunEnds ==
    /\ ctlRun.result = "running"
    /\ ctlRun' = [result |-> "Transport", by |-> "subscriber"]
    /\ UNCHANGED <<ctlOut, ctlIn, ctlClose>>
    /\ UNCHANGED notCtlVars

\* ietf::start, session.rs:20-46: the spawned task closes the session with
\* the code that goes with the result of run.
SessionClose ==
    /\ ctlRun.result # "running"
    /\ ~ctlClose.called
    /\ ctlClose' = StartClose(ctlRun.result)
    /\ UNCHANGED <<ctlOut, ctlIn, ctlRun>>
    /\ UNCHANGED notCtlVars

CtlNext ==
    \/ \E msg \in OutKinds : ControlSend(msg)
    \/ ControlRunRecv
    \/ ControlRunWrite
    \/ ControlRunFails
    \/ \E msg \in InMsgs : PeerSends(msg)
    \/ \E how \in {"fin", "fin_partial"} : PeerFinishes(how)
    \/ ControlReadMessage
    \/ ControlReadFin
    \/ ControlReadFails
    \/ SubscriberRunEnds
    \/ SessionClose

-----------------------------------------------------------------------------
(***************************************************************************)
(* Part IV - the Subscriber of an IETF session (ietf/subscriber.rs)        *)
(*                                                                         *)
(* The endpoint is a client: its own request ids are 0, 2, ...             *)
(* (control.rs:25-40).  One namespace is in play.  The producers of the    *)
(* model (TrackProducer, GroupProducer, FrameProducer) are kept as the     *)
(* state their consumers see.                                              *)
(***************************************************************************)

\* Bounds: the highest group sequence, the objects a peer writes on one
\* stream, the announces counted for the namespace.
MaxSequence == 1
MaxObjects == 1
MaxAnnounce == 2

\* Bound: the downstream consumers of the track that is subscribed upstream.
MaxDownstream == 2

ReqIds == {0, 1}
TrackAliases == ReqIds
GroupIds == 0..MaxSequence
StreamIds == {1, 2}
FrameSizes == {1, 2}

\* Option::None for an alias, a request id, a sequence, a stop code.
NoAlias == -1
NoRequest == -1
NoSequence == -1
NoCode == -1

\* The error_code values a SubscribeError carries in the model.
ErrorCodes == {CodeCancel, CodeNotFound}

\* Track::produce: a track with no group yet.
NewTrack == [state |-> "open", err |-> "none", latest |-> NoSequence, delivered |-> <<>>]
NoTrack == [state |-> "none", err |-> "none", latest |-> NoSequence, delivered |-> <<>>]

\* TrackProducer::abort(err): the track ends, its consumers observe err.
TrackAbort(track, err) ==
    IF track.state = "open" THEN [track EXCEPT !.state = "aborted", !.err = err] ELSE track

\* TrackProducer::close: the track ends normally.
TrackClose(track) ==
    IF track.state = "open" THEN [track EXCEPT !.state = "closed"] ELSE track

\* TrackProducer::create_group(sequence): None when the sequence is not newer
\* than the newest group of the track.
CreateGroupIsSome(track, sequence) == track.latest < sequence

\* TrackProducer::create_group(sequence) returning Some: the group becomes
\* the latest of the track and is handed to its consumers.
CreateGroup(track, sequence) ==
    [track EXCEPT !.latest = sequence, !.delivered = Append(@, sequence)]

\* An entry of State::subscribes, and a vacant one.
TrackState(alias) == [present |-> TRUE, alias |-> alias]
Vacant == [present |-> FALSE, alias |-> NoAlias]

\* HashMap::remove on State::aliases, for the alias of a removed TrackState
\* (subscriber.rs:157-159, 170-172).
RemoveAlias(map, alias) ==
    IF alias = NoAlias THEN map ELSE [map EXCEPT ![alias] = NoRequest]

\* The error with which recv_subscribe_error aborts the track (subscriber.rs:156).
SubscribeErrorAbort(error_code) == "Cancel"

\* Subscriber::recv_subscribe_ok, subscriber.rs:141-150.
RecvSubscribeOk(id, alias) ==
    /\ subRun = "running"
    /\ IF subscribes[id].present
       THEN /\ subscribes' = [subscribes EXCEPT ![id].alias = alias]
            /\ aliases' = [aliases EXCEPT ![alias] = id]
       ELSE UNCHANGED <<subscribes, aliases>>
    /\ UNCHANGED <<publishes, broadcasts, broadcastTasks, tracks, subTasks, subNextId,
                   streams, subRun, subSent>>
    /\ UNCHANGED <<consumers, requested>>
    /\ UNCHANGED <<subOrigin, notSubVars>>

\* Subscriber::recv_subscribe_error, subscriber.rs:152-163.
RecvSubscribeError(id, error_code) ==
    /\ subRun = "running"
    /\ IF subscribes[id].present
       THEN /\ tracks' = [tracks EXCEPT ![id] = TrackAbort(@, SubscribeErrorAbort(error_code))]
            /\ subscribes' = [subscribes EXCEPT ![id] = Vacant]
            /\ aliases' = RemoveAlias(aliases, subscribes[id].alias)
       ELSE UNCHANGED <<tracks, subscribes, aliases>>
    /\ UNCHANGED <<publishes, broadcasts, broadcastTasks, subTasks, subNextId, streams, subRun, subSent>>
    /\ UNCHANGED <<consumers, requested>>
    /\ UNCHANGED <<subOrigin, notSubVars>>

\* Subscriber::recv_publish_done, subscriber.rs:165-181, with stop_announce
\* (subscriber.rs:115-135) for the implicit announce of a recorded PUBLISH;
\* without an origin stop_announce fails with InvalidRole.
RecvPublishDone(id) ==
    /\ subRun = "running"
    /\ IF subscribes[id].present
       THEN /\ tracks' = [tracks EXCEPT ![id] = TrackClose(@)]
            /\ subscribes' = [subscribes EXCEPT ![id] = Vacant]
            /\ aliases' = RemoveAlias(aliases, subscribes[id].alias)
       ELSE UNCHANGED <<tracks, subscribes, aliases>>
    /\ publishes' = publishes \ {id}
    /\ IF id \in publishes
       THEN IF ~subOrigin
            THEN subRun' = "InvalidRole" /\ UNCHANGED broadcasts
            ELSE IF broadcasts > 0
                 THEN broadcasts' = broadcasts - 1 /\ UNCHANGED subRun
                 ELSE subRun' = "NotFound" /\ UNCHANGED broadcasts
       ELSE UNCHANGED <<broadcasts, subRun>>
    /\ UNCHANGED <<broadcastTasks, subTasks, subNextId, streams, subSent>>
    /\ UNCHANGED <<consumers, requested>>
    /\ UNCHANGED <<subOrigin, notSubVars>>

\* What recv_publish does when start_publish finds the request id in use
\* (subscriber.rs:422-427, 458): it answers PublishError and returns Ok.
PublishDuplicate == [run |-> "running", reply |-> "PublishError"]

\* A message handed to Control::send: its kind and its request id.
Sent(kind, id) == [kind |-> kind, id |-> id]
NoMessage == Sent("none", NoRequest)

\* Subscriber::recv_publish with start_publish and start_announce
\* (subscriber.rs:421-475, 78-113).  start_publish registers the track and
\* the implicit announce before it calls start_announce, which fails with
\* InvalidRole when there is no origin (subscriber.rs:79-81, 462-467).
RecvPublish(id, alias) ==
    /\ subRun = "running"
    /\ \/ subscribes[id].present
       \/ ~subOrigin
       \/ (broadcasts < MaxAnnounce /\ broadcastTasks < MaxAnnounce)
    /\ IF subscribes[id].present
       THEN /\ subRun' = PublishDuplicate.run
            /\ subSent' = Sent(PublishDuplicate.reply, id)
            /\ UNCHANGED <<subscribes, publishes, broadcasts, broadcastTasks, tracks>>
       ELSE /\ subscribes' = [subscribes EXCEPT ![id] = TrackState(alias)]
            /\ tracks' = [tracks EXCEPT ![id] = NewTrack]
            /\ publishes' = publishes \cup {id}
            /\ IF subOrigin
               THEN /\ broadcasts' = broadcasts + 1
                    /\ broadcastTasks' = IF broadcasts = 0 THEN broadcastTasks + 1
                                                            ELSE broadcastTasks
                    /\ subSent' = Sent("PublishOk", id)
               ELSE /\ subSent' = Sent("PublishError", id)
                    /\ UNCHANGED <<broadcasts, broadcastTasks>>
            /\ UNCHANGED subRun
    /\ UNCHANGED <<aliases, subTasks, subNextId, streams>>
    /\ UNCHANGED <<consumers, requested>>
    /\ UNCHANGED <<subOrigin, notSubVars>>

\* The subscriptions of run_broadcast whose track is open: the track a
\* BroadcastConsumer hands out again for the same name.
Serving == {id \in subTasks : tracks[id].state = "open"}

\* The downstream consumers of the track, all in all.
Downstream == requested + consumers[0] + consumers[1]

\* BroadcastConsumer::subscribe_track, for one track name that the peer did
\* not PUBLISH: a downstream subscriber gets a consumer of the track that is
\* served, or of the track that waits in requested_track, or of a new track
\* that is put there.
DownstreamSubscribes ==
    /\ broadcastTasks > 0
    /\ Downstream < MaxDownstream
    /\ IF Serving # {}
       THEN /\ consumers' = [consumers EXCEPT ![CHOOSE id \in Serving : TRUE] = @ + 1]
            /\ UNCHANGED requested
       ELSE /\ requested' = requested + 1
            /\ UNCHANGED consumers
    /\ UNCHANGED <<subscribes, aliases, publishes, broadcasts, broadcastTasks, tracks,
                   subTasks, subNextId, streams, subRun, subSent>>
    /\ UNCHANGED <<subOrigin, notSubVars>>

\* A downstream subscriber drops its TrackConsumer.
DownstreamDrops(id) ==
    /\ consumers[id] > 0
    /\ consumers' = [consumers EXCEPT ![id] = @ - 1]
    /\ UNCHANGED <<subscribes, aliases, publishes, broadcasts, broadcastTasks, tracks,
                   subTasks, subNextId, streams, subRun, subSent, requested>>
    /\ UNCHANGED <<subOrigin, notSubVars>>

\* Subscriber::run_broadcast, subscriber.rs:223-250: requested_track returns
\* the track a consumer asked for; the next request id is taken, the track
\* is registered and run_subscribe sends the Subscribe (subscriber.rs:262-270).
RunBroadcastSubscribe ==
    /\ subRun = "running"
    /\ broadcastTasks > 0
    /\ requested > 0
    /\ subNextId \in ReqIds
    /\ subscribes' = [subscribes EXCEPT ![subNextId] = TrackState(NoAlias)]
    /\ tracks' = [tracks EXCEPT ![subNextId] = NewTrack]
    /\ subTasks' = subTasks \cup {subNextId}
    /\ subNextId' = subNextId + 2
    /\ subSent' = Sent("Subscribe", subNextId)
    /\ consumers' = [consumers EXCEPT ![subNextId] = requested]
    /\ requested' = 0
    /\ UNCHANGED <<aliases, publishes, broadcasts, broadcastTasks, streams, subRun>>
    /\ UNCHANGED <<subOrigin, notSubVars>>

\* The task spawned by start_announce, subscriber.rs:105-110: run_broadcast
\* returns (the broadcast is unused, or the session closed) and the entry of
\* the namespace is removed.
RunBroadcastEnds ==
    /\ broadcastTasks > 0
    /\ broadcastTasks' = broadcastTasks - 1
    /\ broadcasts' = 0
    /\ requested' = 0
    /\ UNCHANGED <<subscribes, aliases, publishes, tracks, subTasks, subNextId, streams,
                   subRun, subSent, consumers>>
    /\ UNCHANGED <<subOrigin, notSubVars>>

\* Subscriber::run_subscribe, subscriber.rs:277-282, and the end of its task
\* (subscriber.rs:249): the track has no consumer left (track.unused()); it
\* is aborted with Cancel and its entry is removed.  Nothing is sent.
RunSubscribeEnds(id) ==
    /\ id \in subTasks
    /\ consumers[id] = 0
    /\ tracks' = [tracks EXCEPT ![id] = TrackAbort(@, "Cancel")]
    /\ subscribes' = [subscribes EXCEPT ![id] = Vacant]
    /\ subTasks' = subTasks \ {id}
    /\ UNCHANGED <<aliases, publishes, broadcasts, broadcastTasks, subNextId, streams, subRun, subSent>>
    /\ UNCHANGED <<consumers, requested>>
    /\ UNCHANGED <<subOrigin, notSubVars>>

\* ---- the incoming group streams ----

\* What a peer writes after the group header: the header of an object (a
\* frame of a declared size, an empty frame, the end-of-group status, a
\* status the code does not support) or one byte of payload.  The group
\* header carries neither extensions nor the end flag.
Obj(size, status) == [size |-> size, status |-> status]
Byte == Obj(0, "byte")
Objects ==
    {Obj(n, "frame") : n \in FrameSizes}
        \cup {Obj(0, "empty"), Obj(0, "end"), Obj(0, "unsupported")}

NoGroup == [state |-> "none", err |-> "none"]

\* A stream nobody has opened yet.
NoStream ==
    [pc |-> "none", kind |-> "none", alias |-> NoAlias, seq |-> NoSequence,
     wire |-> <<>>, owed |-> 0, written |-> 0, end |-> "open",
     res |-> "none", stop |-> NoCode, req |-> NoRequest,
     group |-> NoGroup, frames |-> <<>>, remain |-> 0]

\* Bytes of payload that have arrived and were not read yet: the bytes at
\* the head of the wire.
Arrived(st) ==
    LET ks == {k \in 0..Len(st.wire) : \A j \in 1..k : st.wire[j].status = "byte"}
    IN  CHOOSE k \in ks : \A l \in ks : l <= k

\* The wire without its first n items.
Drop(wire, n) == SubSeq(wire, n + 1, Len(wire))

\* The peer opens a unidirectional stream and writes its header.
PeerOpens(s, kind, alias, seq) ==
    /\ streams[s].pc = "none"
    /\ \A t \in StreamIds : t < s => streams[t].pc # "none"
    /\ streams' = [streams EXCEPT ![s] =
            [@ EXCEPT !.pc = "sent", !.kind = kind, !.alias = alias, !.seq = seq]]
    /\ UNCHANGED <<subscribes, aliases, publishes, broadcasts, broadcastTasks, tracks,
                   subTasks, subNextId, subRun, subSent>>
    /\ UNCHANGED <<consumers, requested>>
    /\ UNCHANGED <<subOrigin, notSubVars>>

\* The peer writes the header of the next object of the group.
PeerWritesObject(s, obj) ==
    /\ streams[s].pc # "none"
    /\ streams[s].kind = "group"
    /\ streams[s].end = "open"
    /\ streams[s].owed = 0
    /\ streams[s].written < MaxObjects
    /\ streams' = [streams EXCEPT ![s] =
            [@ EXCEPT !.wire = Append(@, obj), !.owed = obj.size, !.written = @ + 1]]
    /\ UNCHANGED <<subscribes, aliases, publishes, broadcasts, broadcastTasks, tracks,
                   subTasks, subNextId, subRun, subSent>>
    /\ UNCHANGED <<consumers, requested>>
    /\ UNCHANGED <<subOrigin, notSubVars>>

\* The peer writes one more byte of the payload of the frame it started.
PeerWritesByte(s) ==
    /\ streams[s].end = "open"
    /\ streams[s].owed > 0
    /\ streams' = [streams EXCEPT ![s] =
            [@ EXCEPT !.wire = Append(@, Byte), !.owed = @ - 1]]
    /\ UNCHANGED <<subscribes, aliases, publishes, broadcasts, broadcastTasks, tracks,
                   subTasks, subNextId, subRun, subSent>>
    /\ UNCHANGED <<consumers, requested>>
    /\ UNCHANGED <<subOrigin, notSubVars>>

\* The peer finishes the stream (FIN, wherever it is) or resets it.
PeerEnds(s, how) ==
    /\ streams[s].pc # "none"
    /\ streams[s].end = "open"
    /\ streams' = [streams EXCEPT ![s].end = how]
    /\ UNCHANGED <<subscribes, aliases, publishes, broadcasts, broadcastTasks, tracks,
                   subTasks, subNextId, subRun, subSent>>
    /\ UNCHANGED <<consumers, requested>>
    /\ UNCHANGED <<subOrigin, notSubVars>>

\* Subscriber::run, subscriber.rs:185-198: accept_uni returns a stream and
\* run_uni_stream is spawned for it.
AcceptUni(s) ==
    /\ subRun = "running"
    /\ streams[s].pc = "sent"
    /\ streams' = [streams EXCEPT ![s].pc = "accepted"]
    /\ UNCHANGED <<subscribes, aliases, publishes, broadcasts, broadcastTasks, tracks,
                   subTasks, subNextId, subRun, subSent>>
    /\ UNCHANGED <<consumers, requested>>
    /\ UNCHANGED <<subOrigin, notSubVars>>

\* Subscriber::run, subscriber.rs:185-189: accept_uni fails.
AcceptUniFails ==
    /\ subRun = "running"
    /\ subRun' = "Transport"
    /\ UNCHANGED <<subscribes, aliases, publishes, broadcasts, broadcastTasks, tracks,
                   subTasks, subNextId, streams, subSent>>
    /\ UNCHANGED <<consumers, requested>>
    /\ UNCHANGED <<subOrigin, notSubVars>>

\* Variant of UniStreamError where the error of a stream ends Subscriber::run.
UniStreamErrorEndsRun(run, err) == IF run = "running" THEN err ELSE run

\* The task spawned for a stream, subscriber.rs:194-198: an error of
\* run_uni_stream is logged; Subscriber::run goes on.
UniStreamError(run, err) == run

\* Reader::abort, reader.rs:166-168: stop the stream with the code of the error.
ReaderAbort(err) == ToCode(err)

\* recv_group, subscriber.rs:295-301: the request id of a track alias; an
\* alias nobody assigned is taken as a request id.
LookupRequest(alias) == IF aliases[alias] # NoRequest THEN aliases[alias] ELSE alias

\* Variant of CreateGroupError that reports a stale group as Cancel.
CreateGroupErrorCancel == "Cancel"

\* recv_group, subscriber.rs:307: the error for a group create_group refuses.
CreateGroupError == "Old"

\* Variant of HeaderGroup that takes the sequence from the track alias.
HeaderGroupFromAlias(alias, group_id) == alias

\* recv_group, subscriber.rs:304-306: the Group made from the header.
HeaderGroup(alias, group_id) == group_id

\* recv_group, subscriber.rs:293-308: the producer for the group of a header,
\* or the error.
RecvGroupProducer(alias, group_id) ==
    LET request_id == LookupRequest(alias)
    IN  IF ~subscribes[request_id].present THEN "NotFound"
        ELSE IF ~CreateGroupIsSome(tracks[request_id], HeaderGroup(alias, group_id))
        THEN CreateGroupError
        ELSE "Ok"

\* run_uni_stream (subscriber.rs:202-216) up to the select! of recv_group
\* (subscriber.rs:285-308): the kind of stream, the header, the subscription,
\* the group.
RunUniStream(s) ==
    LET st == streams[s]
        fail(err) == [st EXCEPT !.pc = "done", !.res = err]
        abort(err) == [st EXCEPT !.pc = "done", !.res = err, !.stop = ReaderAbort(err)]
    IN
    /\ st.pc = "accepted"
    /\ \/ /\ st.end = "reset"
          /\ streams' = [streams EXCEPT ![s] = fail("Transport")]
          /\ subRun' = UniStreamError(subRun, "Transport")
          /\ UNCHANGED tracks
       \/ /\ st.kind = "fetch"
          /\ streams' = [streams EXCEPT ![s] = fail("Unsupported")]
          /\ subRun' = UniStreamError(subRun, "Unsupported")
          /\ UNCHANGED tracks
       \/ /\ st.kind = "other"
          /\ streams' = [streams EXCEPT ![s] = fail("UnexpectedStream")]
          /\ subRun' = UniStreamError(subRun, "UnexpectedStream")
          /\ UNCHANGED tracks
       \/ /\ st.kind = "group"
          /\ LET got == RecvGroupProducer(st.alias, st.seq)
                 request_id == LookupRequest(st.alias)
             IN  IF got # "Ok"
                 THEN /\ streams' = [streams EXCEPT ![s] = abort(got)]
                      /\ subRun' = UniStreamError(subRun, got)
                      /\ UNCHANGED tracks
                 ELSE /\ streams' = [streams EXCEPT ![s] =
                            [st EXCEPT !.pc = "objects", !.req = request_id,
                                       !.group = [state |-> "open", err |-> "none"]]]
                      /\ tracks' = [tracks EXCEPT ![request_id] =
                            CreateGroup(@, HeaderGroup(st.alias, st.seq))]
                      /\ UNCHANGED subRun
    /\ UNCHANGED <<subscribes, aliases, publishes, broadcasts, broadcastTasks,
                   subTasks, subNextId, subSent>>
    /\ UNCHANGED <<consumers, requested>>
    /\ UNCHANGED <<subOrigin, notSubVars>>

\* A FrameProducer as its consumers see it: the declared size, the bytes
\* written, and whether it is open, closed, aborted, or dropped while open.
Frame(size, got, state, err) == [size |-> size, got |-> got, state |-> state, err |-> err]

Min(a, b) == IF a <= b THEN a ELSE b

\* Variant of RunFrameLoop that stops one byte early.
RunFrameLoopShort(remain) == remain > 1

\* run_frame, subscriber.rs:392: the loop runs while bytes remain.
RunFrameLoop(remain) == remain > 0

\* Variant of GroupOutcome that closes the group whatever the result.
GroupOutcomeAlwaysClose(res) == [state |-> "closed", err |-> "none"]

\* recv_group, subscriber.rs:315-328: what becomes of the group for a result
\* of run_group (or of the consumers leaving).
GroupOutcome(res) ==
    IF res \in {"Cancel", "Transport"} THEN [state |-> "aborted", err |-> "Cancel"]
    ELSE IF res # "Ok" THEN [state |-> "aborted", err |-> res]
    ELSE [state |-> "closed", err |-> "none"]

\* The last frame of a stream, changed.
WithLastFrame(st, frame) == [st.frames EXCEPT ![Len(st.frames)] = frame]

\* recv_group, subscriber.rs:310-330: run_group has returned res.
GroupDone(st, res) == [st EXCEPT !.pc = "done", !.res = res, !.group = GroupOutcome(res)]

\* run_group, subscriber.rs:339-378: one turn of the loop up to the creation
\* of the frame, or the end of the loop.
RunGroupNext(s) ==
    LET st == streams[s]
        obj == Head(st.wire)
        took == [st EXCEPT !.wire = Tail(@)]
    IN
    /\ st.pc = "objects"
    /\ \/ /\ st.end = "reset"
          /\ streams' = [streams EXCEPT ![s] = GroupDone(st, "Transport")]
       \/ /\ st.wire = <<>>
          /\ st.end = "fin"
          /\ streams' = [streams EXCEPT ![s] = GroupDone(st, "Ok")]
       \/ /\ st.wire # <<>>
          /\ streams' = [streams EXCEPT ![s] =
                CASE obj.status = "empty" ->
                        [took EXCEPT !.frames = Append(@, Frame(0, 0, "closed", "none"))]
                  [] obj.status = "end" -> GroupDone(took, "Ok")
                  [] obj.status = "unsupported" -> GroupDone(took, "Unsupported")
                  [] OTHER ->
                        IF RunFrameLoop(obj.size)
                        THEN [took EXCEPT !.pc = "frame", !.remain = obj.size,
                                !.frames = Append(@, Frame(obj.size, 0, "open", "none"))]
                        ELSE [took EXCEPT
                                !.frames = Append(@, Frame(obj.size, 0, "closed", "none"))]]
    /\ UNCHANGED <<subscribes, aliases, publishes, broadcasts, broadcastTasks, tracks,
                   subTasks, subNextId, subRun, subSent>>
    /\ UNCHANGED <<consumers, requested>>
    /\ UNCHANGED <<subOrigin, notSubVars>>

\* Variant of RunGroupFrameError that returns the error and leaves the frame.
RunGroupFrameErrorReturns(frame, err) == frame

\* run_group, subscriber.rs:371-374: run_frame (or the select! around it)
\* gave an error; the frame is aborted with it.
RunGroupFrameError(frame, err) == [frame EXCEPT !.state = "aborted", !.err = err]

\* run_frame, subscriber.rs:392-400: Reader::read returns a chunk of len bytes
\* (at most remain, reader.rs:95-107), it is written to the frame, and the
\* frame is closed when nothing remains.
RunFrameRead(s, len) ==
    LET st == streams[s]
        frame == st.frames[Len(st.frames)]
        remain == st.remain - len
        wrote == [frame EXCEPT !.got = @ + len]
    IN
    /\ st.pc = "frame"
    /\ len \in 1..Min(st.remain, Arrived(st))
    /\ streams' = [streams EXCEPT ![s] =
            IF RunFrameLoop(remain)
            THEN [st EXCEPT !.wire = Drop(@, len), !.remain = remain,
                            !.frames = WithLastFrame(st, wrote)]
            ELSE [st EXCEPT !.wire = Drop(@, len), !.remain = remain, !.pc = "objects",
                            !.frames = WithLastFrame(st, [wrote EXCEPT !.state = "closed"])]]
    /\ UNCHANGED <<subscribes, aliases, publishes, broadcasts, broadcastTasks, tracks,
                   subTasks, subNextId, subRun, subSent>>
    /\ UNCHANGED <<consumers, requested>>
    /\ UNCHANGED <<subOrigin, notSubVars>>

\* run_frame, subscriber.rs:393: Reader::read finds the stream finished
\* (None, hence WrongSize) or reset (Transport); run_group aborts the frame
\* (subscriber.rs:371-374) and recv_group the group.
RunFrameFails(s) ==
    LET st == streams[s]
        frame == st.frames[Len(st.frames)]
        err == IF st.end = "reset" THEN "Transport" ELSE "WrongSize"
    IN
    /\ st.pc = "frame"
    /\ \/ st.end = "reset"
       \/ st.end = "fin" /\ Arrived(st) = 0
    /\ streams' = [streams EXCEPT ![s] =
            GroupDone([st EXCEPT !.frames =
                          WithLastFrame(st, RunGroupFrameError(frame, err))],
                      err)]
    /\ UNCHANGED <<subscribes, aliases, publishes, broadcasts, broadcastTasks, tracks,
                   subTasks, subNextId, subRun, subSent>>
    /\ UNCHANGED <<consumers, requested>>
    /\ UNCHANGED <<subOrigin, notSubVars>>

\* The select! arms for consumers that left: the frame's (subscriber.rs:367,
\* the frame is aborted with Cancel) or the group's (subscriber.rs:311, the
\* future of run_group is dropped with the frame it was filling).
ConsumersLeave(s, which) ==
    LET st == streams[s]
        frame == st.frames[Len(st.frames)]
    IN
    /\ st.pc \in {"objects", "frame"}
    /\ which = "frame" => st.pc = "frame"
    /\ streams' = [streams EXCEPT ![s] =
            IF st.pc = "frame"
            THEN GroupDone([st EXCEPT !.frames = WithLastFrame(st,
                                IF which = "frame"
                                THEN RunGroupFrameError(frame, "Cancel")
                                ELSE [frame EXCEPT !.state = "dropped"])],
                           "Cancel")
            ELSE GroupDone(st, "Cancel")]
    /\ UNCHANGED <<subscribes, aliases, publishes, broadcasts, broadcastTasks, tracks,
                   subTasks, subNextId, subRun, subSent>>
    /\ UNCHANGED <<consumers, requested>>
    /\ UNCHANGED <<subOrigin, notSubVars>>

\* The handlers of control messages and the tasks of subscriptions.
SubscribeNext ==
    \/ \E id \in ReqIds, alias \in TrackAliases : RecvSubscribeOk(id, alias)
    \/ \E id \in ReqIds, code \in ErrorCodes : RecvSubscribeError(id, code)
    \/ \E id \in ReqIds : RecvPublishDone(id)
    \/ \E id \in ReqIds, alias \in TrackAliases : RecvPublish(id, alias)
    \/ DownstreamSubscribes
    \/ \E id \in ReqIds : DownstreamDrops(id)
    \/ RunBroadcastSubscribe
    \/ RunBroadcastEnds
    \/ \E id \in ReqIds : RunSubscribeEnds(id)

\* The handlers and tasks of a session whose transport may fail: accept_uni
\* fails and Subscriber::run ends, which ends the select! of ietf::run
\* (session.rs:67-72).
SessionNext ==
    \/ SubscribeNext
    \/ AcceptUniFails

\* What the scheduling of the tasks gives: a run_subscribe task whose track
\* is unused goes on (subscriber.rs:277), and a run_broadcast task of a
\* closed session takes the arm of session.closed() (subscriber.rs:229).
SessionFairness ==
    /\ \A id \in ReqIds : WF_vars(RunSubscribeEnds(id))
    /\ WF_vars(subRun # "running" /\ RunBroadcastEnds)

\* The streams of S of one published track, from the peer's writes to the
\* end of their tasks; the peer opens streams of the given kinds and writes
\* the given objects.
StreamNext(S, kinds, objects) ==
    \/ RecvPublish(0, 0)
    \/ \E s \in S, kind \in kinds, seq \in GroupIds : PeerOpens(s, kind, 0, seq)
    \/ \E s \in S, obj \in objects : PeerWritesObject(s, obj)
    \/ \E s \in S : PeerWritesByte(s)
    \/ \E s \in S, how \in {"fin", "reset"} : PeerEnds(s, how)
    \/ \E s \in S : AcceptUni(s)
    \/ AcceptUniFails
    \/ \E s \in S : RunUniStream(s)
    \/ \E s \in S : RunGroupNext(s)
    \/ \E s \in S, len \in FrameSizes : RunFrameRead(s, len)
    \/ \E s \in S : RunFrameFails(s)
    \/ \E s \in S, which \in {"group", "frame"} : ConsumersLeave(s, which)

\* One stream with every kind of header and object, and the end of the
\* published track.
GroupNext ==
    \/ StreamNext({1}, {"group", "fetch", "other"}, Objects)
    \/ RecvPublishDone(0)

\* Two streams of groups, each object a frame of one byte.
StreamsNext == StreamNext(StreamIds, {"group"}, {Obj(1, "frame")})

\* The PUBLISH and PUBLISH_DONE messages of a peer and the tasks of the
\* announces they imply, for a subscriber with or without an origin.
PublishNext ==
    \/ \E id \in ReqIds, alias \in TrackAliases : RecvPublish(id, alias)
    \/ \E id \in ReqIds : RecvPublishDone(id)
    \/ \E id \in ReqIds, alias \in TrackAliases : RecvSubscribeOk(id, alias)
    \/ RunBroadcastEnds

\* The requests of both kinds, the aliases the peer assigns to them, and the
\* header of one group stream.
AliasNext ==
    \/ \E id \in ReqIds, alias \in TrackAliases : RecvPublish(id, alias)
    \/ \E id \in ReqIds, alias \in TrackAliases : RecvSubscribeOk(id, alias)
    \/ DownstreamSubscribes
    \/ RunBroadcastSubscribe
    \/ \E alias \in TrackAliases, seq \in GroupIds : PeerOpens(1, "group", alias, seq)
    \/ AcceptUni(1)
    \/ RunUniStream(1)

-----------------------------------------------------------------------------
(***************************************************************************)
(* Part V - the Origin and the listener of libmoq (libmoq/src/origin.rs)   *)
(***************************************************************************)

\* Bound: the broadcasts produced.
MaxBroadcasts == 3

Paths == {"a", "b"}

\* Option::None for a broadcast; broadcasts are numbered from 1.
NoBroadcast == 0

\* An announcement as OriginConsumer::announced returns it: the path and the
\* broadcast (None when the path has ended); cause tells what produced it.
Announce(path, broadcast, cause) == [path |-> path, broadcast |-> broadcast, cause |-> cause]

\* The announcements for the consumer, when there is one.
Emit(consumer, events) ==
    IF consumer.made THEN [consumer EXCEPT !.queue = @ \o events] ELSE consumer

\* OriginProducer::publish_broadcast: the announcements of a publish at path,
\* where previous is the broadcast the path held: the old one is announced as
\* ended, then the new one as active.
PublishAnnounces(path, previous, broadcast) ==
    IF previous = NoBroadcast
    THEN <<Announce(path, broadcast, "publish")>>
    ELSE <<Announce(path, NoBroadcast, "replace"), Announce(path, broadcast, "replace")>>

\* OriginProducer::publish_broadcast(path, consumer).
PublishBroadcast(path) ==
    /\ originNext <= MaxBroadcasts
    /\ originActive' = [originActive EXCEPT ![path] = originNext]
    /\ originNext' = originNext + 1
    /\ originConsumer' = Emit(originConsumer,
                              PublishAnnounces(path, originActive[path], originNext))
    /\ UNCHANGED announced
    /\ UNCHANGED notOriginVars

\* The last producer of the broadcast at path is dropped: the path ends.
BroadcastEnds(path) ==
    /\ originActive[path] # NoBroadcast
    /\ originActive' = [originActive EXCEPT ![path] = NoBroadcast]
    /\ originConsumer' = Emit(originConsumer, <<Announce(path, NoBroadcast, "close")>>)
    /\ UNCHANGED <<originNext, announced>>
    /\ UNCHANGED notOriginVars

\* The active paths as a sequence, for the snapshot of a new consumer.
RECURSIVE Snapshot(_)
Snapshot(paths) ==
    IF paths = {} THEN <<>>
    ELSE LET path == CHOOSE q \in paths : TRUE
         IN  <<Announce(path, originActive[path], "init")>> \o Snapshot(paths \ {path})

\* Origin::announced, origin.rs:36-50: origin.consume() makes the consumer,
\* which starts with the paths that are active, and the task is spawned.
OriginAnnounced ==
    /\ ~originConsumer.made
    /\ originConsumer' =
            [made |-> TRUE,
             queue |-> Snapshot({path \in Paths : originActive[path] # NoBroadcast})]
    /\ UNCHANGED <<originActive, originNext, announced>>
    /\ UNCHANGED notOriginVars

\* Variant of AnnouncedEntry that records the status the wrong way round.
AnnouncedEntryInverted(path, broadcast) == [path |-> path, active |-> broadcast = NoBroadcast]

\* Origin::run_announced, origin.rs:54-57: the entry (path, broadcast.is_some()).
AnnouncedEntry(path, broadcast) == [path |-> path, active |-> broadcast # NoBroadcast]

\* Origin::run_announced, origin.rs:53-58: one turn of the loop.
RunAnnounced ==
    /\ originConsumer.made
    /\ originConsumer.queue # <<>>
    /\ LET next == Head(originConsumer.queue)
       IN  announced' = Append(announced,
                [entry |-> AnnouncedEntry(next.path, next.broadcast), of |-> next])
    /\ originConsumer' = [originConsumer EXCEPT !.queue = Tail(@)]
    /\ UNCHANGED <<originActive, originNext>>
    /\ UNCHANGED notOriginVars

OriginNext ==
    \/ \E path \in Paths : PublishBroadcast(path)
    \/ \E path \in Paths : BroadcastEnds(path)
    \/ OriginAnnounced
    \/ RunAnnounced

-----------------------------------------------------------------------------
(***************************************************************************)
(* Part VI - the codec: coding/encode.rs, coding/decode.rs and the         *)
(* messages of lite/subscribe.rs and ietf/subscribe.rs                     *)
(*                                                                         *)
(* The wire is the sequence of the items written: a variable-length        *)
(* integer, a byte and a string are one item each.                         *)
(***************************************************************************)

\* Bound: the highest value of an integer field (ids, codes, priorities).
MaxField == 1

Fields == 0..MaxField
Strs == {"", "a"}

\* A Path as the list of its parts between '/' (the empty path has none).
NamespacePaths == {<<>>, <<"a">>, <<"a", "b">>}

\* The range of i8.
I8_MIN == -128
I8_MAX == 127

\* Casts between integer types.
AsI16(x) == x
AsU8(x) == x % 256
AsI8(x) == IF x % 256 >= 128 THEN (x % 256) - 256 ELSE x % 256

\* Variant of EncodeI8 that shifts by 127.
EncodeI8Off(value) == AsU8(AsI16(value) + 127)

\* impl Encode for i8, encode.rs:53-60.
EncodeI8(value) == AsU8(AsI16(value) + 128)

\* impl Decode for i8, decode.rs:106-117.
DecodeI8(byte) == AsI8(AsI16(byte) - 128)

\* GroupOrder and FilterType on the wire (subscribe.rs:15-22).
GroupOrders == {"Ascending", "Descending"}
GroupOrderCode(order) == IF order = "Ascending" THEN 1 ELSE 2
FilterTypes == {"NextGroup", "LargestObject"}
FilterTypeCode(filter_type) == IF filter_type = "NextGroup" THEN 1 ELSE 2

\* impl Encode for bool, encode.rs:22-26.
EncodeBool(b) == IF b THEN 1 ELSE 0

\* encode_namespace, namespace.rs:4-16.
EncodeNamespace(namespace) ==
    IF namespace = <<>> THEN <<0>> ELSE <<Len(namespace)>> \o namespace

\* The values to encode.
LiteSubscribe(id, broadcast, track, priority) ==
    [kind |-> "lite::Subscribe", id |-> id, broadcast |-> broadcast, track |-> track,
     priority |-> priority]
LiteSubscribeOk(priority) == [kind |-> "lite::SubscribeOk", priority |-> priority]
IetfSubscribe(request_id, track_namespace, track_name, subscriber_priority, group_order,
              filter_type) ==
    [kind |-> "ietf::Subscribe", request_id |-> request_id,
     track_namespace |-> track_namespace, track_name |-> track_name,
     subscriber_priority |-> subscriber_priority, group_order |-> group_order,
     filter_type |-> filter_type]
IetfSubscribeOk(request_id, track_alias) ==
    [kind |-> "ietf::SubscribeOk", request_id |-> request_id, track_alias |-> track_alias]
IetfSubscribeError(request_id, error_code, reason_phrase) ==
    [kind |-> "ietf::SubscribeError", request_id |-> request_id, error_code |-> error_code,
     reason_phrase |-> reason_phrase]
IetfUnsubscribe(request_id) == [kind |-> "ietf::Unsubscribe", request_id |-> request_id]
I8Value(value) == [kind |-> "i8", value |-> value]

LiteMessages ==
    {LiteSubscribe(id, b, t, p) : id \in Fields, b \in NamespacePaths, t \in Strs, p \in Fields}
        \cup {LiteSubscribeOk(p) : p \in Fields}

IetfMessages ==
    UNION {{IetfSubscribe(id, ns, t, p, o, f) :
                id \in Fields, ns \in NamespacePaths, t \in Strs, p \in Fields} :
                    o \in GroupOrders, f \in FilterTypes}
        \cup {IetfSubscribeOk(id, a) : id \in Fields, a \in Fields}
        \cup {IetfSubscribeError(id, c, r) : id \in Fields, c \in Fields, r \in Strs}
        \cup {IetfUnsubscribe(id) : id \in Fields}

\* A value with the version it is coded under.
CodecInput(msg, version) == [msg |-> msg, version |-> version]
CodecInputs ==
    {CodecInput(m, v) : m \in LiteMessages, v \in {LiteDraft01, LiteDraft02}}
        \cup {CodecInput(m, IetfDraft14) : m \in IetfMessages}
        \cup {CodecInput(I8Value(p), v) : p \in I8_MIN..I8_MAX, v \in {LiteDraft02}}

\* encode_msg of each message, and encode of an i8.
EncodeMsg(msg, version) ==
    CASE msg.kind = "lite::Subscribe" ->
            \* lite/subscribe.rs:35-40
            <<msg.id, msg.broadcast, msg.track, msg.priority>>
      [] msg.kind = "lite::SubscribeOk" ->
            \* lite/subscribe.rs:49-53
            IF version = LiteDraft01 THEN <<msg.priority>> ELSE <<>>
      [] msg.kind = "ietf::Subscribe" ->
            \* ietf/subscribe.rs:92-107
            <<msg.request_id>> \o EncodeNamespace(msg.track_namespace)
                \o <<msg.track_name, msg.subscriber_priority, GroupOrderCode("Descending"),
                     EncodeBool(TRUE), FilterTypeCode(msg.filter_type), 0>>
      [] msg.kind = "ietf::SubscribeOk" ->
            \* ietf/subscribe.rs:120-127
            <<msg.request_id, msg.track_alias, 0, GroupOrderCode("Descending"),
              EncodeBool(FALSE), 0>>
      [] msg.kind = "ietf::SubscribeError" ->
            \* ietf/subscribe.rs:168-172
            <<msg.request_id, msg.error_code, msg.reason_phrase>>
      [] msg.kind = "ietf::Unsubscribe" ->
            \* ietf/subscribe.rs:195-197
            <<msg.request_id>>
      [] OTHER -> <<EncodeI8(msg.value)>>

\* The result of a decode step: the value and the rest of the buffer, or
\* the error.
Got(value, rest) == [ok |-> TRUE, value |-> value, rest |-> rest, err |-> "none"]
DecodeFails(err) == [ok |-> FALSE, value |-> 0, rest |-> <<>>, err |-> err]

\* decode of one item (an integer, a byte, a string): decode.rs:65-72, 83-104.
DecodeItem(buf) == IF buf = <<>> THEN DecodeFails("Short") ELSE Got(Head(buf), Tail(buf))

\* impl Decode for bool, decode.rs:55-63.
DecodeBool(buf) ==
    LET r == DecodeItem(buf)
    IN  IF ~r.ok THEN r
        ELSE IF r.value = 0 THEN Got(FALSE, r.rest)
        ELSE IF r.value = 1 THEN Got(TRUE, r.rest)
        ELSE DecodeFails("InvalidValue")

\* decode_namespace, namespace.rs:19-33.
DecodeNamespace(buf) ==
    LET count == DecodeItem(buf)
    IN  IF ~count.ok THEN count
        ELSE IF count.value = 0 THEN Got(<<>>, count.rest)
        ELSE IF Len(count.rest) < count.value THEN DecodeFails("Short")
        ELSE Got(SubSeq(count.rest, 1, count.value),
                 SubSeq(count.rest, count.value + 1, Len(count.rest)))

\* impl Decode for GroupOrder and for FilterType (subscribe.rs:30-34).
DecodeGroupOrder(buf) ==
    LET r == DecodeItem(buf)
    IN  IF ~r.ok THEN r
        ELSE IF r.value = 1 THEN Got("Ascending", r.rest)
        ELSE IF r.value = 2 THEN Got("Descending", r.rest)
        ELSE DecodeFails("InvalidValue")
DecodeFilterType(buf) ==
    LET r == DecodeItem(buf)
    IN  IF ~r.ok THEN r
        ELSE IF r.value = 1 THEN Got("NextGroup", r.rest)
        ELSE IF r.value = 2 THEN Got("LargestObject", r.rest)
        ELSE DecodeFails("InvalidValue")

\* impl Decode for Parameters, parameters.rs:35-66, for the count the
\* encoders write (none).
DecodeParameters(buf) ==
    LET count == DecodeItem(buf)
    IN  IF ~count.ok THEN count
        ELSE IF count.value = 0 THEN Got(0, count.rest)
        ELSE DecodeFails("Short")

\* The `?` of a decode step: go on with the rest of the buffer, or return
\* the error.
Then(r, Step(_)) == IF r.ok THEN Step(r.rest) ELSE r

\* The message a decode_msg returns.
Decoded(last, msg) ==
    IF last.ok THEN [ok |-> TRUE, msg |-> msg, err |-> "none"]
    ELSE [ok |-> FALSE, msg |-> [kind |-> "none"], err |-> last.err]

\* lite::Subscribe::decode_msg, lite/subscribe.rs:21-33.
DecodeLiteSubscribe(buf) ==
    LET id == DecodeItem(buf)
        broadcast == Then(id, DecodeItem)
        track == Then(broadcast, DecodeItem)
        priority == Then(track, DecodeItem)
    IN  Decoded(priority,
                LiteSubscribe(id.value, broadcast.value, track.value, priority.value))

\* lite::SubscribeOk::decode_msg, lite/subscribe.rs:55-63.
DecodeLiteSubscribeOk(buf, version) ==
    LET priority == IF version = LiteDraft01 THEN DecodeItem(buf) ELSE Got(0, buf)
    IN  Decoded(priority, LiteSubscribeOk(priority.value))

\* ietf::Subscribe::decode_msg, ietf/subscribe.rs:51-90.
DecodeIetfSubscribe(buf) ==
    LET request_id == DecodeItem(buf)
        track_namespace == Then(request_id, DecodeNamespace)
        track_name == Then(track_namespace, DecodeItem)
        subscriber_priority == Then(track_name, DecodeItem)
        group_order == Then(subscriber_priority, DecodeGroupOrder)
        forward == Then(group_order, DecodeBool)
        forwarded == IF forward.ok /\ ~forward.value THEN DecodeFails("Unsupported")
                     ELSE forward
        filter_type == Then(forwarded, DecodeFilterType)
        params == Then(filter_type, DecodeParameters)
    IN  Decoded(params,
                IetfSubscribe(request_id.value, track_namespace.value, track_name.value,
                              subscriber_priority.value, group_order.value,
                              filter_type.value))

\* ietf::SubscribeOk::decode_msg, ietf/subscribe.rs:129-154.
DecodeIetfSubscribeOk(buf) ==
    LET request_id == DecodeItem(buf)
        track_alias == Then(request_id, DecodeItem)
        expires == Then(track_alias, DecodeItem)
        expired == IF expires.ok /\ expires.value # 0 THEN DecodeFails("Unsupported")
                   ELSE expires
        group_order == Then(expired, DecodeItem)
        content == Then(group_order, DecodeBool)
        largest == IF content.ok /\ content.value
                   THEN Then(Then(content, DecodeItem), DecodeItem)
                   ELSE content
        params == Then(largest, DecodeParameters)
    IN  Decoded(params, IetfSubscribeOk(request_id.value, track_alias.value))

\* ietf::SubscribeError::decode_msg, ietf/subscribe.rs:173-183.
DecodeIetfSubscribeError(buf) ==
    LET request_id == DecodeItem(buf)
        error_code == Then(request_id, DecodeItem)
        reason_phrase == Then(error_code, DecodeItem)
    IN  Decoded(reason_phrase,
                IetfSubscribeError(request_id.value, error_code.value, reason_phrase.value))

\* ietf::Unsubscribe::decode_msg, ietf/subscribe.rs:199-202.
DecodeIetfUnsubscribe(buf) ==
    LET request_id == DecodeItem(buf)
    IN  Decoded(request_id, IetfUnsubscribe(request_id.value))

\* decode of an i8, decode.rs:106-117.
DecodeI8Value(buf) ==
    LET byte == DecodeItem(buf)
    IN  Decoded(byte, I8Value(IF byte.ok THEN DecodeI8(byte.value) ELSE 0))

\* decode_msg of the message type the receiver expects.
DecodeMsg(kind, buf, version) ==
    CASE kind = "lite::Subscribe" -> DecodeLiteSubscribe(buf)
      [] kind = "lite::SubscribeOk" -> DecodeLiteSubscribeOk(buf, version)
      [] kind = "ietf::Subscribe" -> DecodeIetfSubscribe(buf)
      [] kind = "ietf::SubscribeOk" -> DecodeIetfSubscribeOk(buf)
      [] kind = "ietf::SubscribeError" -> DecodeIetfSubscribeError(buf)
      [] kind = "ietf::Unsubscribe" -> DecodeIetfUnsubscribe(buf)
      [] OTHER -> DecodeI8Value(buf)

NotDecoded == [ok |-> FALSE, msg |-> [kind |-> "none"], err |-> "none"]

\* The sender encodes the value.
CodecEncode ==
    /\ codecPc = "start"
    /\ codecWire' = EncodeMsg(codecIn.msg, codecIn.version)
    /\ codecPc' = "encoded"
    /\ UNCHANGED <<codecIn, codecOut>>
    /\ UNCHANGED notCodecVars

\* The receiver decodes what was written.
CodecDecode ==
    /\ codecPc = "encoded"
    /\ codecOut' = DecodeMsg(codecIn.msg.kind, codecWire, codecIn.version)
    /\ codecPc' = "decoded"
    /\ UNCHANGED <<codecIn, codecWire>>
    /\ UNCHANGED notCodecVars

CodecNext ==
    \/ CodecEncode
    \/ CodecDecode

-----------------------------------------------------------------------------
(***************************************************************************)
(* Part VII - the libmoq FFI boundary (libmoq/src/ffi.rs, error.rs, id.rs) *)
(* Every exported function runs its body as a closure given to ffi::enter, *)
(* which turns what the closure returns, or its panic, into an i32.        *)
(***************************************************************************)

\* i32::MAX and i32::MIN
I32_MAX == 2147483647
I32_MIN == -I32_MAX - 1

\* The small values a closure returns, besides the extreme ones.
MaxValue == 2

\* An unsigned value wider than 31 bits (u32 of an Id, usize): `low` holds
\* bits 0..30 and `high` tells whether any higher bit is set.
Wide(high, low) == [high |-> high, low |-> low]
Lows == 0..MaxValue \cup {I32_MAX}
Wides == {Wide(high, low) : high \in 0..1, low \in Lows}
\* Id is NonZero<u32>, id.rs:7
Ids == Wides \ {Wide(0, 0)}
I32s == (-MaxValue)..MaxValue \cup {I32_MIN, I32_MAX}

\* The variants of Error, error.rs:16-92
Errors ==
    {"Closed", "Moq", "Url", "Utf8", "Connect", "InvalidPointer", "InvalidId", "NotFound",
     "UnknownFormat", "InitFailed", "DecodeFailed", "TimestampOverflow", "Level",
     "InvalidCode", "Panic", "Offline", "Hang", "NoIndex", "NulError"}

\* impl ReturnCode for Error, error.rs:100-125
ErrorCode(e) ==
    CASE e = "Closed" -> -1
      [] e = "Moq" -> -2
      [] e = "Url" -> -3
      [] e = "Utf8" -> -4
      [] e = "Connect" -> -5
      [] e = "InvalidPointer" -> -6
      [] e = "InvalidId" -> -7
      [] e = "NotFound" -> -8
      [] e = "UnknownFormat" -> -9
      [] e = "InitFailed" -> -10
      [] e = "DecodeFailed" -> -11
      [] e = "TimestampOverflow" -> -13
      [] e = "Level" -> -14
      [] e = "InvalidCode" -> -15
      [] e = "Panic" -> -16
      [] e = "Offline" -> -17
      [] e = "Hang" -> -18
      [] e = "NoIndex" -> -19
      [] e = "NulError" -> -20

\* What a closure does: it returns a value of a type that implements
\* ReturnCode (`ok` tells Ok from Err for the Result types), or it panics.
Ret(type, ok, int, wide, err) ==
    [type |-> type, ok |-> ok, int |-> int, wide |-> wide, err |-> err]
NoError == "none"
RetUnit == Ret("()", TRUE, 0, Wide(0, 0), NoError)
RetI32(v) == Ret("i32", TRUE, v, Wide(0, 0), NoError)
RetUsize(w) == Ret("usize", TRUE, 0, w, NoError)
RetId(w) == Ret("Id", TRUE, 0, w, NoError)
RetError(e) == Ret("Error", FALSE, 0, Wide(0, 0), e)
RetOkI32(v) == Ret("Result<i32>", TRUE, v, Wide(0, 0), NoError)
RetOkUsize(w) == Ret("Result<usize>", TRUE, 0, w, NoError)
RetOkId(w) == Ret("Result<Id>", TRUE, 0, w, NoError)
RetOkUnit == Ret("Result<()>", TRUE, 0, Wide(0, 0), NoError)
RetErr(type, e) == Ret(type, FALSE, 0, Wide(0, 0), e)
RetPanic == Ret("panic", FALSE, 0, Wide(0, 0), NoError)
ResultTypes == {"Result<i32>", "Result<usize>", "Result<Id>", "Result<()>"}

Rets ==
    {RetUnit, RetOkUnit, RetPanic}
        \cup {RetI32(v) : v \in I32s}
        \cup {RetUsize(w) : w \in Wides}
        \cup {RetId(w) : w \in Ids}
        \cup {RetError(e) : e \in Errors}
        \cup {RetOkI32(v) : v \in I32s}
        \cup {RetOkUsize(w) : w \in Wides}
        \cup {RetOkId(w) : w \in Ids}
        \cup {RetErr(type, e) : type \in ResultTypes, e \in Errors}

\* i32::try_from(value).unwrap_or_else(|_| Error::InvalidCode.code()),
\* ffi.rs:109, 118, 135, 141 (id.rs:58-64 for an Id)
TryFromOrInvalidCode(w) == IF w.high = 0 THEN w.low ELSE ErrorCode("InvalidCode")

\* impl ReturnCode for Result<i32, Error>, ffi.rs:96-104
ResultI32Code(ret) ==
    IF ret.ok THEN (IF ret.int < 0 THEN ErrorCode("InvalidCode") ELSE ret.int)
    ELSE ErrorCode(ret.err)

\* impl ReturnCode for Result<usize, Error> and Result<Id, Error>, ffi.rs:106-122
ResultWideCode(ret) ==
    IF ret.ok THEN TryFromOrInvalidCode(ret.wide) ELSE ErrorCode(ret.err)

\* impl ReturnCode for Result<(), Error>, ffi.rs:124-131
ResultUnitCode(ret) == IF ret.ok THEN 0 ELSE ErrorCode(ret.err)

\* ReturnCode::code, ffi.rs:79-143 and error.rs:100-125
Code(ret) ==
    CASE ret.type = "()" -> 0
      [] ret.type = "i32" -> ret.int
      [] ret.type = "usize" -> TryFromOrInvalidCode(ret.wide)
      [] ret.type = "Id" -> TryFromOrInvalidCode(ret.wide)
      [] ret.type = "Error" -> ErrorCode(ret.err)
      [] ret.type = "Result<i32>" -> ResultI32Code(ret)
      [] ret.type = "Result<usize>" -> ResultWideCode(ret)
      [] ret.type = "Result<Id>" -> ResultWideCode(ret)
      [] ret.type = "Result<()>" -> ResultUnitCode(ret)

\* ffi::enter, ffi.rs:32-42: catch_unwind around the closure.
Enter(ret) == IF ret.type = "panic" THEN ErrorCode("Panic") ELSE Code(ret)

\* One call of an exported function.
FfiEnter ==
    /\ ffiPc = "call"
    /\ ffiCode' = Enter(ffiRet)
    /\ ffiPc' = "returned"
    /\ UNCHANGED ffiRet
    /\ UNCHANGED notFfiVars

FfiNext == FfiEnter

-----------------------------------------------------------------------------
(***************************************************************************)
(* Part VIII - the request ids of one endpoint (ietf/control.rs).          *)
(* Several tasks share one Control; each call of next_request_id is a      *)
(* loop of a critical section under the mutex and a select!.               *)
(***************************************************************************)

\* The tasks that call next_request_id (the run_broadcast tasks).
MaxTasks == 2
ReqTasks == 0..(MaxTasks - 1)

\* The largest limit the peer grants.
MaxLimit == 4
Limits == 0..MaxLimit

NoRequestId == -1

\* What next_request_id returned.
NoResult == [kind |-> "none", id |-> NoRequestId]
OkRequestId(id) == [kind |-> "id", id |-> id]
ErrCancel == [kind |-> "Cancel", id |-> NoRequestId]

\* Control::new, control.rs:34: the first request id of the endpoint.
FirstRequestId(client) == IF client THEN 0 ELSE 1

\* RequestId::increment: the next id of the same parity.
Increment(id) == id + 2

\* Variant of BelowLimit that also admits the limit itself.
BelowLimitInclusive(next, max) == next <= max

\* control.rs:78: state.request_id_next < state.request_id_max
BelowLimit(next, max) == next < max

\* Variant of NotifyWaiters that wakes no future.
NotifyWaitersNone(notified, pc) == notified

\* Notify::notify_waiters, control.rs:70: wakes every Notified future that
\* exists, whether it has been polled ("select") or not yet ("armed").
NotifyWaiters(notified, pc) ==
    [t \in ReqTasks |-> pc[t] \in {"armed", "select"}]

\* A task calls next_request_id (subscriber.rs:232).
NextRequestId(t) ==
    /\ reqPc[t] = "idle"
    /\ reqPc' = [reqPc EXCEPT ![t] = "lock"]
    /\ reqResult' = [reqResult EXCEPT ![t] = NoResult]
    /\ UNCHANGED <<request_id_next, request_id_max, reqClient, reqNotified, reqHanded, reqClosed>>
    /\ UNCHANGED notReqVars

\* next_request_id, control.rs:75-83: under the mutex, return the next id if
\* it is below the limit, else create the Notified future.
RequestIdLock(t) ==
    /\ reqPc[t] = "lock"
    /\ IF BelowLimit(request_id_next, request_id_max)
       THEN /\ reqResult' = [reqResult EXCEPT ![t] = OkRequestId(request_id_next)]
            /\ reqHanded' = reqHanded \cup {request_id_next}
            /\ request_id_next' = Increment(request_id_next)
            /\ reqPc' = [reqPc EXCEPT ![t] = "idle"]
            /\ UNCHANGED reqNotified
       ELSE /\ reqNotified' = [reqNotified EXCEPT ![t] = FALSE]
            /\ reqPc' = [reqPc EXCEPT ![t] = "armed"]
            /\ UNCHANGED <<request_id_next, reqResult, reqHanded>>
    /\ UNCHANGED <<request_id_max, reqClient, reqClosed>>
    /\ UNCHANGED notReqVars

\* next_request_id, control.rs:85: the select! polls the future for the first time.
RequestIdSelect(t) ==
    /\ reqPc[t] = "armed"
    /\ reqPc' = [reqPc EXCEPT ![t] = "select"]
    /\ UNCHANGED <<request_id_next, request_id_max, reqClient, reqNotified, reqResult,
                   reqHanded, reqClosed>>
    /\ UNCHANGED notReqVars

\* next_request_id, control.rs:86: `_ = notify => continue`; the future is dropped.
RequestIdNotified(t) ==
    /\ reqPc[t] = "select"
    /\ reqNotified[t]
    /\ reqPc' = [reqPc EXCEPT ![t] = "lock"]
    /\ reqNotified' = [reqNotified EXCEPT ![t] = FALSE]
    /\ UNCHANGED <<request_id_next, request_id_max, reqClient, reqResult, reqHanded, reqClosed>>
    /\ UNCHANGED notReqVars

\* next_request_id, control.rs:87: `_ = self.tx.closed() => return Err(Error::Cancel)`;
\* the future is dropped.
RequestIdClosed(t) ==
    /\ reqPc[t] = "select"
    /\ reqClosed
    /\ reqResult' = [reqResult EXCEPT ![t] = ErrCancel]
    /\ reqPc' = [reqPc EXCEPT ![t] = "idle"]
    /\ reqNotified' = [reqNotified EXCEPT ![t] = FALSE]
    /\ UNCHANGED <<request_id_next, request_id_max, reqClient, reqHanded, reqClosed>>
    /\ UNCHANGED notReqVars

\* run_control_read reads a MaxRequestId (session.rs:179-183) and calls
\* Control::max_request_id (control.rs:67-71). run_control_read and
\* Control::run, which owns the receiver, are arms of one select!
\* (session.rs:66-71): no message is read once the receiver is gone.
MaxRequestId(max) ==
    /\ ~reqClosed
    /\ request_id_max' = max
    /\ reqNotified' = NotifyWaiters(reqNotified, reqPc)
    /\ UNCHANGED <<request_id_next, reqClient, reqPc, reqResult, reqHanded, reqClosed>>
    /\ UNCHANGED notReqVars

\* The select! of ietf::run ends (session.rs:66-71): Control::run is dropped
\* and with it the receiver of the control channel.
ControlRunEnds ==
    /\ ~reqClosed
    /\ reqClosed' = TRUE
    /\ UNCHANGED <<request_id_next, request_id_max, reqClient, reqPc, reqNotified, reqResult,
                   reqHanded>>
    /\ UNCHANGED notReqVars

RequestNext ==
    \/ \E t \in ReqTasks : NextRequestId(t)
    \/ \E t \in ReqTasks : RequestIdLock(t)
    \/ \E t \in ReqTasks : RequestIdSelect(t)
    \/ \E t \in ReqTasks : RequestIdNotified(t)
    \/ \E t \in ReqTasks : RequestIdClosed(t)
    \/ \E max \in Limits : MaxRequestId(max)
    \/ ControlRunEnds

\* tokio runs a task that can make a step: the steps of next_request_id are
\* taken; calls, messages of the peer and the end of the session are not forced.
RequestFairness ==
    \A t \in ReqTasks :
        /\ WF_vars(RequestIdLock(t))
        /\ WF_vars(RequestIdSelect(t))
        /\ WF_vars(RequestIdNotified(t))
        /\ WF_vars(RequestIdClosed(t))

-----------------------------------------------------------------------------
(***************************************************************************)
(* Part IX - the connections of the relay (moq-relay/src/connection.rs,    *)
(* metrics.rs).  Every connection runs Connection::run once, as a task of  *)
(* its own; the counters are atomics shared by all of them.  A step of the *)
(* model is the code between two awaits of run.                            *)
(***************************************************************************)

\* Bound: the connections the relay accepts.
MaxConns == 2

Conns == 1..MaxConns

\* What Auth::verify answers, and the rights of the token it returns:
\* whether Cluster::publisher and Cluster::subscriber are Some.
Verdicts == {"ok", "err"}
Rights == [publish : BOOLEAN, subscribe : BOOLEAN]

\* AtomicU64::fetch_add(1) and fetch_sub(1), metrics.rs:51-75.
increment(counter) == counter + 1
decrement(counter) == counter - 1

\* Connection::run, connection.rs:18-91, up to its first await: the
\* connection is counted, the token is verified; a rejected connection is
\* counted out and waits for request.reject; a token without allowed paths
\* makes run return (bail!); a token with subscribe rights is counted as a
\* subscriber, and run waits for accept_with_stats.
RunVerify(c, verdict, rights) ==
    /\ connPc[c] = "new"
    /\ IF verdict = "err"
       THEN /\ connection_errors' = increment(connection_errors)
            /\ active_connections' = decrement(increment(active_connections))
            /\ connPc' = [connPc EXCEPT ![c] = "reject"]
            /\ UNCHANGED <<active_subscribers, connSubscriber, connResult>>
       ELSE /\ active_connections' = increment(active_connections)
            /\ connSubscriber' = [connSubscriber EXCEPT ![c] = rights.subscribe]
            /\ IF ~rights.publish /\ ~rights.subscribe
               THEN /\ connPc' = [connPc EXCEPT ![c] = "returned"]
                    /\ connResult' = [connResult EXCEPT ![c] = "invalid session"]
                    /\ UNCHANGED active_subscribers
               ELSE /\ active_subscribers' = IF rights.subscribe
                                             THEN increment(active_subscribers)
                                             ELSE active_subscribers
                    /\ connPc' = [connPc EXCEPT ![c] = "accept"]
                    /\ UNCHANGED connResult
            /\ UNCHANGED connection_errors
    /\ UNCHANGED notRelayVars

\* Connection::run, connection.rs:59-60: request.reject is done and run
\* returns the error of the verification.
RunRejected(c) ==
    /\ connPc[c] = "reject"
    /\ connPc' = [connPc EXCEPT ![c] = "returned"]
    /\ connResult' = [connResult EXCEPT ![c] = "auth"]
    /\ UNCHANGED <<active_connections, active_subscribers, connection_errors, connSubscriber>>
    /\ UNCHANGED notRelayVars

\* Connection::run, connection.rs:88-91: accept_with_stats answers; its
\* error is returned with `?`, otherwise run waits for session.closed().
RunAccept(c, ok) ==
    /\ connPc[c] = "accept"
    /\ IF ok
       THEN /\ connPc' = [connPc EXCEPT ![c] = "session"]
            /\ UNCHANGED connResult
       ELSE /\ connPc' = [connPc EXCEPT ![c] = "returned"]
            /\ connResult' = [connResult EXCEPT ![c] = "handshake"]
    /\ UNCHANGED <<active_connections, active_subscribers, connection_errors, connSubscriber>>
    /\ UNCHANGED notRelayVars

\* Connection::run, connection.rs:159-183: the session is closed, the stats
\* task has ended; an error is recorded, the subscriber and the connection
\* are counted out and run returns.
RunClosed(c, ok) ==
    /\ connPc[c] = "session"
    /\ connection_errors' = IF ok THEN connection_errors ELSE increment(connection_errors)
    /\ active_subscribers' = IF connSubscriber[c] THEN decrement(active_subscribers)
                                                  ELSE active_subscribers
    /\ active_connections' = decrement(active_connections)
    /\ connPc' = [connPc EXCEPT ![c] = "returned"]
    /\ connResult' = [connResult EXCEPT ![c] = IF ok THEN "closed" ELSE "session error"]
    /\ UNCHANGED connSubscriber
    /\ UNCHANGED notRelayVars

RelayNext ==
    \/ \E c \in Conns, verdict \in Verdicts, rights \in Rights : RunVerify(c, verdict, rights)
    \/ \E c \in Conns : RunRejected(c)
    \/ \E c \in Conns, ok \in BOOLEAN : RunAccept(c, ok)
    \/ \E c \in Conns, ok \in BOOLEAN : RunClosed(c, ok)

-----------------------------------------------------------------------------
(***************************************************************************)
(* Part X - the session tasks of libmoq (libmoq/src/session.rs, id.rs).    *)
(* Session::connect puts the sender of a oneshot channel into a slab and   *)
(* spawns a task that holds the receiver; the Id of the slab entry is the  *)
(* handle given to the caller.  Consume::catalog (consume.rs:46-63) and    *)
(* the other tasks of libmoq follow the same pattern.                      *)
(***************************************************************************)

\* Bound: the calls of Session::connect.
MaxSessions == 3

SessionTasks == 1..MaxSessions

\* No task, no Id.
NoTask == 0
NoId == 0

\* The entries of a slab::Slab: occupied by the sender of a task, or vacant
\* and naming the key that is free after this one.
Occupied(t) == [tag |-> "Occupied", val |-> t, next |-> 0]
VacantEntry(next) == [tag |-> "Vacant", val |-> NoTask, next |-> next]

\* Slab::new.
SlabNew == [entries |-> <<>>, next |-> 0]

\* Slab::insert: the value goes to the key `next`, which is the key freed
\* last, or the length of the entries when no key is free.
SlabKey(slab) == slab.next
SlabInsert(slab, t) ==
    IF slab.next = Len(slab.entries)
    THEN [entries |-> Append(slab.entries, Occupied(t)), next |-> slab.next + 1]
    ELSE [entries |-> [slab.entries EXCEPT ![slab.next + 1] = Occupied(t)],
          next |-> slab.entries[slab.next + 1].next]

\* Slab::try_remove(key) is Some.
SlabHolds(slab, key) ==
    key < Len(slab.entries) /\ slab.entries[key + 1].tag = "Occupied"

\* Slab::try_remove: an occupied entry becomes vacant and its key the next
\* one to be used.
SlabTryRemove(slab, key) ==
    IF SlabHolds(slab, key)
    THEN [entries |-> [slab.entries EXCEPT ![key + 1] = VacantEntry(slab.next)],
          next |-> key]
    ELSE slab

\* NonZeroSlab::insert, id.rs:19-23: the Id is the key plus one.
InsertId(slab) == SlabKey(slab) + 1

\* NonZeroSlab::remove, id.rs:30-33.
Remove(slab, id) == SlabTryRemove(slab, id - 1)

\* The tasks whose sender is in the slab: their receiver is pending.
SenderAlive(t) ==
    \E k \in 1..Len(taskSlab.entries) : taskSlab.entries[k] = Occupied(t)

\* Session::connect, session.rs:15-40: the sender is inserted, the task is
\* spawned, the Id is returned to the caller.
Connect(t) ==
    /\ taskPc[t] = "none"
    /\ \A u \in SessionTasks : u < t => taskPc[u] # "none"
    /\ taskSlab' = SlabInsert(taskSlab, t)
    /\ taskId' = [taskId EXCEPT ![t] = InsertId(taskSlab)]
    /\ taskPc' = [taskPc EXCEPT ![t] = "running"]
    /\ taskHeld' = [taskHeld EXCEPT ![t] = TRUE]
    /\ UNCHANGED taskRes
    /\ UNCHANGED notTaskVars

\* Session::close, session.rs:61-64, called with a handle the caller holds:
\* the entry of the Id is removed, which drops the sender in it.
Close(t) ==
    /\ taskHeld[t]
    /\ taskPc[t] = "running"
    /\ taskSlab' = Remove(taskSlab, taskId[t])
    /\ taskHeld' = [taskHeld EXCEPT ![t] = FALSE]
    /\ UNCHANGED <<taskPc, taskId, taskRes>>
    /\ UNCHANGED notTaskVars

\* The select! of the task, session.rs:27-32: the receiver resolves because
\* the sender was dropped, and the task is cancelled with Error::Closed.
TaskCancelled(t) ==
    /\ taskPc[t] = "running"
    /\ ~SenderAlive(t)
    /\ taskPc' = [taskPc EXCEPT ![t] = "ending"]
    /\ taskRes' = [taskRes EXCEPT ![t] = "Closed"]
    /\ UNCHANGED <<taskSlab, taskId, taskHeld>>
    /\ UNCHANGED notTaskVars

\* The select! of the task, session.rs:27-32: connect_run returns, with an
\* error of the connection or at the end of the session.
TaskReturns(t, res) ==
    /\ taskPc[t] = "running"
    /\ taskPc' = [taskPc EXCEPT ![t] = "ending"]
    /\ taskRes' = [taskRes EXCEPT ![t] = res]
    /\ UNCHANGED <<taskSlab, taskId, taskHeld>>
    /\ UNCHANGED notTaskVars

\* The end of the task, session.rs:33-36: the status is reported and the
\* entry of the task's Id is removed from the slab.
TaskEnd(t) ==
    /\ taskPc[t] = "ending"
    /\ taskSlab' = Remove(taskSlab, taskId[t])
    /\ taskPc' = [taskPc EXCEPT ![t] = "done"]
    /\ taskHeld' = [taskHeld EXCEPT ![t] = FALSE]
    /\ UNCHANGED <<taskId, taskRes>>
    /\ UNCHANGED notTaskVars

TaskNext ==
    \/ \E t \in SessionTasks : Connect(t)
    \/ \E t \in SessionTasks : Close(t)
    \/ \E t \in SessionTasks : TaskCancelled(t)
    \/ \E t \in SessionTasks, res \in {"Ok", "Connect"} : TaskReturns(t, res)
    \/ \E t \in SessionTasks : TaskEnd(t)

-----------------------------------------------------------------------------
(***************************************************************************)
(* Part XI - Reader::read_exact (coding/reader.rs:106-128), as it is       *)
(* called by run_control_read for the payload of a control message         *)
(* (ietf/session.rs:87-90).  The bytes of the stream are numbered in the   *)
(* order the peer writes them.                                             *)
(***************************************************************************)

\* Bounds: the size asked for, the bytes read ahead into Reader::buffer,
\* the bytes the peer writes after them.
MaxSize == 2
MaxBuffered == 2
MaxStream == 2

\* The bytes first..last, in order.
Bytes(first, last) == [i \in 1..(last - first + 1) |-> first + i - 1]

\* BytesMut::split_to(n): the first n bytes, and what it leaves.
SplitTo(buffer, n) == SubSeq(buffer, 1, n)
SplitRest(buffer, n) == SubSeq(buffer, n + 1, Len(buffer))

\* Limit::remaining_mut of buf = data.limit(size), reader.rs:113-114.
RemainingMut(buf, size) == size - Len(buf)

\* The peer writes n more bytes on the stream.
StreamWrites(n) ==
    /\ rdStream.end = "open"
    /\ rdStream.next + n - 1 <= MaxBuffered + MaxStream
    /\ rdStream' = [rdStream EXCEPT
           !.pending = @ \o Bytes(rdStream.next, rdStream.next + n - 1),
           !.next = @ + n]
    /\ UNCHANGED <<rdBuffer, rdSize, rdBuf, rdPc, rdResult, rdLast>>
    /\ UNCHANGED notReadVars

\* The peer finishes the stream, or resets it; a reset discards what was
\* not read.
StreamEnds(how) ==
    /\ rdStream.end = "open"
    /\ rdStream' = [rdStream EXCEPT
           !.end = how,
           !.pending = IF how = "reset" THEN <<>> ELSE @]
    /\ UNCHANGED <<rdBuffer, rdSize, rdBuf, rdPc, rdResult, rdLast>>
    /\ UNCHANGED notReadVars

\* Reader::read_exact, reader.rs:107-118: enough bytes in the buffer are
\* returned at once; otherwise the buffer is moved into buf and the loop
\* begins.
ReadExactStart ==
    /\ rdPc = "call"
    /\ IF Len(rdBuffer) >= rdSize
       THEN /\ rdBuf' = SplitTo(rdBuffer, rdSize)
            /\ rdBuffer' = SplitRest(rdBuffer, rdSize)
            /\ rdPc' = "returned"
            /\ rdResult' = "Ok"
       ELSE LET size == IF RemainingMut(<<>>, rdSize) < Len(rdBuffer)
                        THEN RemainingMut(<<>>, rdSize) ELSE Len(rdBuffer)
            IN  /\ rdBuf' = SplitTo(rdBuffer, size)
                /\ rdBuffer' = SplitRest(rdBuffer, size)
                /\ rdPc' = "loop"
                /\ UNCHANGED rdResult
    /\ UNCHANGED <<rdStream, rdSize, rdLast>>
    /\ UNCHANGED notReadVars

\* One turn of the loop, reader.rs:120-125, and the return at line 127 when
\* buf is full: read_buf gives an error on a reset stream, which `?`
\* returns; Some(n) with n bytes that are there and fit; None at the end of
\* a finished stream, which the loop does not look at.  On an open stream
\* without bytes read_buf waits.
ReadBuf(n) ==
    /\ rdPc = "loop"
    /\ RemainingMut(rdBuf, rdSize) > 0
    /\ IF rdStream.end = "reset"
       THEN /\ rdPc' = "returned"
            /\ rdResult' = "Transport"
            /\ rdLast' = "Err"
            /\ UNCHANGED <<rdStream, rdBuf>>
       ELSE IF rdStream.pending # <<>>
       THEN /\ n <= Len(rdStream.pending)
            /\ n <= RemainingMut(rdBuf, rdSize)
            /\ rdBuf' = rdBuf \o SplitTo(rdStream.pending, n)
            /\ rdStream' = [rdStream EXCEPT !.pending = SplitRest(@, n)]
            /\ rdLast' = "Some"
            /\ IF RemainingMut(rdBuf, rdSize) = n
               THEN rdPc' = "returned" /\ rdResult' = "Ok"
               ELSE UNCHANGED <<rdPc, rdResult>>
       ELSE /\ rdStream.end = "fin"
            /\ rdLast' = "None"
            /\ UNCHANGED <<rdStream, rdBuf, rdPc, rdResult>>
    /\ UNCHANGED <<rdBuffer, rdSize>>
    /\ UNCHANGED notReadVars

ReadNext ==
    \/ \E n \in 1..MaxStream : StreamWrites(n)
    \/ \E how \in {"fin", "reset"} : StreamEnds(how)
    \/ ReadExactStart
    \/ \E n \in 1..MaxSize : ReadBuf(n)

\* The task that calls read_exact is scheduled whenever it can go on.
ReadFairness ==
    /\ WF_vars(ReadExactStart)
    /\ WF_vars(\E n \in 1..MaxSize : ReadBuf(n))

-----------------------------------------------------------------------------
(***************************************************************************)
(* Part II - properties                                                    *)
(***************************************************************************)

\* Versions offered by the client that the server supports.
Common == {hsOffer[i] : i \in 1..Len(hsOffer)} \cap {VERSIONS[i] : i \in 1..Len(VERSIONS)}

Highest(S) == CHOOSE v \in S : \A w \in S : w <= v

\* The first entry of the client's list that the server supports.
FirstCommon ==
    LET i == CHOOSE j \in 1..Len(hsOffer) :
                 /\ hsOffer[j] \in Common
                 /\ \A k \in 1..(j - 1) : hsOffer[k] \notin Common
    IN  hsOffer[i]

\* C6 as stated: the version the server writes in the Server Setup is the
\* highest of the versions offered by the client and supported by the server.
C6_PicksHighestCommon ==
    hsS2C.state = "setup" => (Common # {} /\ hsS2C.version = Highest(Common))

\* C6 amended: the version the server writes in the Server Setup is, among the
\* versions offered by the client and supported by the server, the one that
\* comes first in the client's list.
C6_PicksFirstOfferedCommon ==
    hsS2C.state = "setup"
        => (/\ Common # {}
            /\ hsS2C.version = FirstCommon
            /\ hsServer.version = hsS2C.version)

\* C6 witness: a Server Setup was written for a client that offered two
\* supported versions, the lower one first.
C6_Witness ==
    /\ hsS2C.state = "setup"
    /\ Cardinality(Common) >= 2
    /\ hsS2C.version # Highest(Common)

\* The version the server lists first among those offered by the client.
ServerPreferred ==
    LET i == CHOOSE j \in 1..Len(VERSIONS) :
                 /\ VERSIONS[j] \in Common
                 /\ \A k \in 1..(j - 1) : VERSIONS[k] \notin Common
    IN  VERSIONS[i]

\* C28: the version a party runs the session with is an entry of the client's
\* list that the server supports, and no earlier entry of the client's list is
\* supported by the server: the client's order decides, not the server's.
C28_ClientOrderDecides ==
    \A party \in {hsClient, hsServer} :
        party.pc = "connected"
            => \E i \in 1..Len(hsOffer) :
                   /\ party.version = hsOffer[i]
                   /\ Contains(VERSIONS, hsOffer[i])
                   /\ \A k \in 1..(i - 1) : ~Contains(VERSIONS, hsOffer[k])

\* C28 witness: both parties run a session whose version is not the one the
\* server lists first among the common versions.
C28_Witness ==
    /\ hsClient.pc = "connected"
    /\ hsServer.pc = "connected"
    /\ hsClient.version = hsServer.version
    /\ Cardinality(Common) >= 2
    /\ hsServer.version # ServerPreferred

\* C7: when the client's versions and the server's have no element in common
\* and the server has rejected the Client Setup, both the client and the
\* server fail the handshake with a Version error.
C7_BothFailWithVersion ==
    (/\ Common = {}
     /\ hsC2S.state = "setup"
     /\ hsServer.pc = "failed" /\ hsServer.err = "Version"
     /\ hsClient.pc = "failed")
        => hsClient.err = "Version"

\* The dialect a version belongs to.
Dialect(v) == IF LiteTryFrom(v) THEN "lite" ELSE IF IetfTryFrom(v) THEN "ietf" ELSE "none"

\* C8: after a successful handshake the client and the server run the same
\* dialect, the one of the version written in the Server Setup.
C8_SameDialect ==
    (hsClient.pc = "connected" /\ hsServer.pc = "connected")
        => (/\ hsClient.dialect = hsServer.dialect
            /\ hsClient.dialect = Dialect(hsS2C.version)
            /\ hsClient.dialect \in {"lite", "ietf"}
            /\ hsClient.version = hsServer.version)

\* C8 witness: both sides connected on a version that is not the first of
\* VERSIONS, once with each dialect in reach (here: lite Draft01 or IETF).
C8_Witness ==
    /\ hsClient.pc = "connected"
    /\ hsServer.pc = "connected"
    /\ hsS2C.version # VERSIONS[1]
    /\ hsClient.dialect = Dialect(hsS2C.version)

-----------------------------------------------------------------------------
(***************************************************************************)
(* Part III - properties                                                   *)
(***************************************************************************)

\* The messages among the first n of the incoming stream that reach a handler.
RECURSIVE HandledPrefix(_, _)
HandledPrefix(stream, n) ==
    IF n = 0 THEN <<>>
    ELSE IF Dispatched(stream[n]) THEN Append(HandledPrefix(stream, n - 1), stream[n])
    ELSE HandledPrefix(stream, n - 1)

\* C9: control messages are FIFO in both directions: what has been written to
\* the control stream, then the message being written, then the queue, is the
\* sequence of messages in the order they were handed to Control::send; and
\* the messages given to handlers are those received, in arrival order.
C9_ControlFifo ==
    /\ ctlOut.written \o ctlOut.writing \o ctlOut.chan = ctlOut.handed
    /\ ctlIn.dispatched = HandledPrefix(ctlIn.stream, ctlIn.pos)
    /\ ctlIn.pos <= Len(ctlIn.stream)

\* C9 witness: two different messages were written in the order handed over,
\* and two different received messages were dispatched.
C9_Witness ==
    /\ Len(ctlOut.written) >= 2
    /\ ctlOut.written[1] # ctlOut.written[2]
    /\ Len(ctlIn.dispatched) >= 2
    /\ ctlIn.dispatched[1] # ctlIn.dispatched[2]

\* C10: when run_control_read finds the control stream finished at a message
\* boundary, run returns Ok and the session is closed with code 0.
C10_FinIsGraceful ==
    ctlIn.sawFin = "fin"
        => (/\ ctlRun.result = "Ok"
            /\ ctlClose.called => (ctlClose.code = 0 /\ ctlClose.err = "none"))

\* C10 witness: the session was closed after a FIN that followed a dispatched message.
C10_Witness ==
    /\ ctlIn.sawFin = "fin"
    /\ ctlClose.called
    /\ Len(ctlIn.dispatched) >= 1

\* A control message with an id the match does not know, or with a declared
\* length longer than what its decoder consumes.
Malformed(msg) == msg.id = "Unknown" \/ (msg.trailing /\ msg.decodes)

\* C11: once run_control_read has taken a message with an unknown id, or with
\* a declared length its decoder does not consume exactly, the session is
\* over, and it is closed with the Protocol code.
C11_MalformedClosesWithProtocol ==
    (ctlIn.pos >= 1 /\ Malformed(ctlIn.stream[ctlIn.pos]))
        => (/\ ctlRun.result # "running"
            /\ ctlClose.called => ctlClose.code = CodeProtocol)

-----------------------------------------------------------------------------
(***************************************************************************)
(* Part IV - properties                                                    *)
(***************************************************************************)

\* The task of stream s ends in this step with an error.
StreamFails(s) ==
    /\ streams[s].pc # "done"
    /\ streams'[s].pc = "done"
    /\ streams'[s].res # "Ok"

\* C12: a step in which the task of one group stream ends with an error
\* (unknown subscription, stale sequence, short or failed read, reset) leaves
\* Subscriber::run running as it was, leaves the subscriptions and every
\* track as they were (no track is aborted), and leaves every other stream
\* and its group untouched.
C12_StreamErrorIsLocal ==
    [][\A s \in StreamIds :
          StreamFails(s)
              => (/\ subRun' = subRun
                  /\ subscribes' = subscribes
                  /\ tracks' = tracks
                  /\ \A t \in StreamIds \ {s} : streams'[t] = streams[t])]_vars

\* C12 witness: one stream failed on a short payload, the session runs, the
\* track is open, and the group of the other stream, of a newer sequence,
\* was delivered and closed with its frame complete.
C12_Witness ==
    \E s, t \in StreamIds :
        /\ streams[s].res = "WrongSize"
        /\ streams[s].group.state = "aborted"
        /\ subRun = "running"
        /\ tracks[0].state = "open"
        /\ streams[t].seq > streams[s].seq
        /\ streams[t].group.state = "closed"
        /\ streams[t].frames # <<>>
        /\ streams[t].frames[1].state = "closed"
        /\ tracks[0].delivered = <<streams[s].seq, streams[t].seq>>

\* The header of stream s is handled in this step (the stream is not reset).
HeaderHandled(s) ==
    /\ streams[s].pc = "accepted"
    /\ streams[s].kind = "group"
    /\ streams'[s].pc # "accepted"
    /\ streams'[s].res # "Transport"

\* C13: when the header of a group stream names a subscription that is not
\* registered (never was, or was removed), the stream is stopped with the
\* Cancel code and no group is created.
C13_UnknownSubscriptionGetsCancel ==
    [][\A s \in StreamIds :
          (HeaderHandled(s) /\ ~subscribes[LookupRequest(streams[s].alias)].present)
              => (/\ streams'[s].stop = CodeCancel
                  /\ streams'[s].group = NoGroup
                  /\ tracks' = tracks)]_vars

\* C14: when the header of a group stream carries a sequence that
\* create_group refuses as stale, the stream is stopped with the Stale code,
\* no group is created, and the tracks are as they were.
C14_StaleGetsStale ==
    [][\A s \in StreamIds :
          (/\ HeaderHandled(s)
           /\ subscribes[LookupRequest(streams[s].alias)].present
           /\ ~CreateGroupIsSome(tracks[LookupRequest(streams[s].alias)], streams[s].seq))
              => (/\ streams'[s].stop = CodeStale
                  /\ streams'[s].group = NoGroup
                  /\ tracks' = tracks)]_vars

\* C14 witness: a stream was stopped as stale on a track that had delivered
\* a group of a newer sequence.
C14_Witness ==
    \E s \in StreamIds :
        /\ streams[s].res = "Old"
        /\ streams[s].stop = CodeStale
        /\ tracks[0].delivered # <<>>
        /\ streams[s].seq < tracks[0].latest

\* C15: when a group stream has finished (FIN) and its task has ended with
\* fewer bytes in the last frame than its declared size, that frame is not
\* closed and the group is aborted with an error, never closed; when the
\* task itself met the FIN, the frame is aborted with WrongSize.
C15_ShortFrameAbortsGroup ==
    \A s \in StreamIds :
        LET st == streams[s]
            frame == st.frames[Len(st.frames)]
        IN  (/\ st.pc = "done"
             /\ st.end = "fin"
             /\ st.frames # <<>>
             /\ frame.got < frame.size)
                => (/\ frame.state \in {"aborted", "dropped"}
                    /\ st.group.state = "aborted"
                    /\ st.group.err # "none"
                    /\ st.res # "Cancel" => (frame.state = "aborted" /\ frame.err = "WrongSize"))

\* C15 witness: a stream finished after one of the two bytes of its frame,
\* and its task ended on the short read.
C15_Witness ==
    \E s \in StreamIds :
        /\ streams[s].pc = "done"
        /\ streams[s].end = "fin"
        /\ streams[s].res = "WrongSize"
        /\ streams[s].frames # <<>>
        /\ streams[s].frames[Len(streams[s].frames)].size = 2
        /\ streams[s].frames[Len(streams[s].frames)].got = 1

\* C16: a frame that is closed holds exactly as many bytes as its declared
\* size, and no frame ever holds more than its declared size.
C16_ClosedFrameIsComplete ==
    \A s \in StreamIds : \A i \in 1..Len(streams[s].frames) :
        LET frame == streams[s].frames[i]
        IN  /\ frame.got <= frame.size
            /\ frame.state = "closed" => frame.got = frame.size

\* C16 witness: a frame of two bytes was closed, and the stream is still open
\* for the peer.
C16_Witness ==
    \E s \in StreamIds :
        /\ streams[s].frames # <<>>
        /\ streams[s].frames[1].size = 2
        /\ streams[s].frames[1].state = "closed"
        /\ streams[s].end = "open"

\* C17: when a SubscribeError arrives for a registered subscription, the
\* track of that subscription is aborted with the error whose code is the
\* error_code of the message.
C17_AbortCarriesErrorCode ==
    [][\A id \in ReqIds, error_code \in ErrorCodes :
          (RecvSubscribeError(id, error_code) /\ subscribes[id].present /\ tracks[id].state = "open")
              => (/\ tracks'[id].state = "aborted"
                  /\ ToCode(tracks'[id].err) = error_code)]_vars

\* C18: when a PUBLISH arrives with a request id that an earlier PUBLISH of
\* the peer still holds, the duplicate is not accepted and the session does
\* not go on: the run of the session ends with an error.
C18_DuplicateEndsSession ==
    [][\A id \in ReqIds, alias \in TrackAliases :
          (RecvPublish(id, alias) /\ subscribes[id].present /\ id \in publishes)
              => (/\ subscribes' = subscribes
                  /\ subRun' # "running")]_vars

\* The terminal states of a producer as its consumers see it: closed,
\* aborted, or dropped while open (a drop ends the consumers' wait).
Terminal(state) == state \in {"closed", "aborted", "dropped"}

C22_OneUpstreamSubscription ==
    [][/\ (DownstreamSubscribes /\ Serving # {})
            => (subSent' = subSent /\ subscribes' = subscribes /\ subTasks' = subTasks)
       /\ \A id \in ReqIds :
            RunSubscribeEnds(id)
                => (consumers[id] = 0 /\ subSent' = Sent("Unsubscribe", id))]_vars

\* C23: once the session has ended (its transport failed), every task
\* spawned for it ends: no run_broadcast task and no run_subscribe task is
\* left running.
C23_TasksEndWithSession ==
    (subRun # "running") ~> (broadcastTasks = 0 /\ subTasks = {})

\* Whether a sequence of numbers is strictly increasing.
Increasing(seq) == \A i, j \in 1..Len(seq) : i < j => seq[i] < seq[j]

\* C20: the groups a track hands to its consumers have increasing sequences
\* whatever the order of arrival of their streams; a stream whose group was
\* created is in the delivered groups of its track under the sequence of its
\* header, and a stream whose sequence was not newer than the latest of the
\* track got no group.
C20_DeliveredInOrder ==
    /\ \A id \in ReqIds : Increasing(tracks[id].delivered)
    /\ \A s \in StreamIds :
          /\ streams[s].group # NoGroup
                => \E i \in 1..Len(tracks[streams[s].req].delivered) :
                       tracks[streams[s].req].delivered[i] = streams[s].seq
          /\ streams[s].res = "Old"
                => (/\ streams[s].group = NoGroup
                    /\ streams[s].seq <= tracks[LookupRequest(streams[s].alias)].latest)

\* C20 witness: the stream of group 1 arrived before the stream of group 0;
\* group 1 was delivered and group 0 dropped.
C20_Witness ==
    \E s, t \in StreamIds :
        /\ streams[s].seq = 1 /\ streams[s].group # NoGroup
        /\ streams[t].seq = 0 /\ streams[t].res = "Old"
        /\ tracks[0].delivered = <<1>>

\* The requests a track alias is assigned to: by a SubscribeOk
\* (subscriber.rs:145) or by a PUBLISH (subscriber.rs:455).
AssignedTo(alias) == {id \in ReqIds : subscribes[id].present /\ subscribes[id].alias = alias}

\* C27: when recv_group writes the group of a stream into the track of a
\* request and the track alias of the stream is assigned to one request, that
\* request is the one whose track gets the group.
C27_GroupGoesToAliasOwner ==
    [][\A s \in StreamIds, id \in ReqIds :
           (/\ RunUniStream(s)
            /\ streams'[s].pc = "objects"
            /\ AssignedTo(streams[s].alias) = {id})
               => streams'[s].req = id]_vars

\* C31: a PublishDone for an accepted PUBLISH, whose implicit announce is
\* still counted, finds the broadcast entry of the namespace: stop_announce
\* does not fail with NotFound and the session goes on.
C31_DoneFindsEntry ==
    [][\A id \in ReqIds :
           (RecvPublishDone(id) /\ id \in publishes)
               => (broadcasts > 0 /\ subRun' = "running")]_vars

\* C35: when the entry of a request leaves State::subscribes, the track alias
\* recorded in the entry no longer maps to the request in State::aliases.
C35_AliasRemovedWithSubscription ==
    [][\A id \in ReqIds :
           (/\ subscribes[id].present
            /\ ~subscribes'[id].present
            /\ subscribes[id].alias # NoAlias)
               => aliases'[subscribes[id].alias] # id]_vars

\* C36: a PUBLISH answered with PublishError leaves State as it was: the
\* subscriptions, the implicit announces and the count of the namespace.
C36_PublishErrorKeepsState ==
    [][\A id \in ReqIds, alias \in TrackAliases :
           (RecvPublish(id, alias) /\ subSent' = Sent("PublishError", id))
               => /\ subscribes' = subscribes
                  /\ publishes' = publishes
                  /\ broadcasts' = broadcasts
                  /\ aliases' = aliases]_vars

-----------------------------------------------------------------------------
(***************************************************************************)
(* Part V - properties                                                     *)
(***************************************************************************)

\* The entries for a path among the first n handed to on_announce.
RECURSIVE EntriesOf(_, _)
EntriesOf(path, n) ==
    IF n = 0 THEN <<>>
    ELSE IF announced[n].entry.path = path
         THEN Append(EntriesOf(path, n - 1), announced[n])
         ELSE EntriesOf(path, n - 1)

-----------------------------------------------------------------------------
(***************************************************************************)
(* Part VI - properties                                                    *)
(***************************************************************************)

\* C24: for each control message and each version, decoding what encoding
\* wrote succeeds and gives back a message equal to the original in every
\* field.
C24_MessageRoundTrip ==
    (codecPc = "decoded" /\ codecIn.msg.kind # "i8")
        => (codecOut.ok /\ codecOut.msg = codecIn.msg)

\* C25: for every priority p in -128..127 the encoder writes the one byte
\* p + 128 (0x80 for 0), and decoding that byte gives p.
C25_PriorityByte ==
    codecIn.msg.kind = "i8"
        => (/\ codecPc # "start" => codecWire = <<codecIn.msg.value + 128>>
            /\ codecPc = "decoded" => (codecOut.ok /\ codecOut.msg.value = codecIn.msg.value))

\* C25 witness: the priority 0 was written as 0x80 = 128 and read back, and
\* so can the lowest priority be.
C25_Witness ==
    /\ codecIn.msg.kind = "i8"
    /\ codecIn.msg.value \in {0, I8_MIN}
    /\ codecPc = "decoded"
    /\ codecWire = <<codecIn.msg.value + 128>>
    /\ codecOut.msg.value = codecIn.msg.value

-----------------------------------------------------------------------------
(***************************************************************************)
(* Part VII - properties                                                   *)
(***************************************************************************)

\* Whether the body of the call failed: it panicked, or it returned an Error,
\* an Err, or (for a body that returns the status itself) a negative status.
Failed(ret) ==
    \/ ret.type = "panic"
    \/ ret.type = "Error"
    \/ ret.type \in ResultTypes /\ ~ret.ok
    \/ ret.type = "i32" /\ ret.int < 0

\* C26: a call returns a negative code when it failed (a panic included) and a
\* non-negative value when it succeeded.
C26_SignTellsOutcome ==
    ffiPc = "returned" => (Failed(ffiRet) <=> ffiCode < 0)

-----------------------------------------------------------------------------
(***************************************************************************)
(* Part VIII - properties                                                  *)
(***************************************************************************)

\* Task t returns from next_request_id with a request id in this step.
HandsOut(t) ==
    /\ reqPc[t] = "lock"
    /\ reqPc'[t] = "idle"
    /\ reqResult'[t].kind = "id"

Waits(t) == reqPc[t] \in {"armed", "select"}

\* C30: a task that waits while the limit is above the next id is eventually
\* given an id (unless the channel is closed or other tasks take the ids
\* first); a task that waits while the channel is closed and the limit is
\* reached returns Cancel; and a waiting task whose future has not been woken
\* never faces a limit above the next id: no MaxRequestId is lost.
C30_WaiterIsServed ==
    /\ \A t \in ReqTasks :
           (Waits(t) /\ request_id_next < request_id_max)
               ~> \/ reqPc[t] = "idle" /\ reqResult[t].kind = "id"
                  \/ reqClosed
                  \/ ~(request_id_next < request_id_max)
    /\ \A t \in ReqTasks :
           (Waits(t) /\ reqClosed /\ ~(request_id_next < request_id_max))
               ~> (reqPc[t] = "idle" /\ reqResult[t] = ErrCancel)
    /\ [](\A t \in ReqTasks :
              (Waits(t) /\ ~reqNotified[t]) => ~(request_id_next < request_id_max))

\* C30 witness: a MaxRequestId that raised the limit above the next id was
\* processed after the task's limit check and before its select!.
C30_Witness ==
    \E t \in ReqTasks :
        /\ reqPc[t] = "armed"
        /\ reqNotified[t]
        /\ request_id_next < request_id_max

-----------------------------------------------------------------------------
(***************************************************************************)
(* Part IX - properties                                                    *)
(***************************************************************************)

\* The runs in progress, and those of them counted as subscribers.
InProgress == {c \in Conns : connPc[c] \in {"reject", "accept", "session"}}

\* C37: the counters of active connections and of active subscribers never
\* go below zero, and once every Connection::run that was started has
\* returned, whatever its exit, both are back at zero.
C37_CountersMatchRuns ==
    /\ active_connections >= 0
    /\ active_subscribers >= 0
    /\ InProgress = {} => (active_connections = 0 /\ active_subscribers = 0)

-----------------------------------------------------------------------------
(***************************************************************************)
(* Part X - properties                                                     *)
(***************************************************************************)

\* C38: the sender of a task leaves the slab only when the caller closes the
\* handle of that task or when that task itself ends.
C38_OnlyOwnEntryReleased ==
    [][\A u \in SessionTasks :
           (SenderAlive(u) /\ ~SenderAlive(u)') => (Close(u) \/ TaskEnd(u))]_vars

-----------------------------------------------------------------------------
(***************************************************************************)
(* Part XI - properties                                                    *)
(***************************************************************************)

\* C40: a call of read_exact on a stream that has ended returns: with the
\* bytes asked for, or with an error.
C40_ReadExactTerminates ==
    (rdStream.end # "open") ~> (rdPc = "returned")

-----------------------------------------------------------------------------
(***************************************************************************)
(* Specifications                                                          *)
(***************************************************************************)

PrioStart ==
    /\ vec = <<>>
    /\ overflow = {}
    /\ indexes = <<>>
    /\ next_id = 0

HsStart ==
    /\ hsC2S = NothingSent
    /\ hsS2C = NothingSent
    /\ hsClient = HsIdle
    /\ hsServer = HsIdle

CtlStart ==
    /\ ctlOut = [handed |-> <<>>, chan |-> <<>>, writing |-> <<>>, written |-> <<>>]
    /\ ctlIn = [stream |-> <<>>, end |-> "open", pos |-> 0, dispatched |-> <<>>,
                sawFin |-> "none"]
    /\ ctlRun = Running
    /\ ctlClose = NotClosed

SubStart ==
    /\ subscribes = [id \in ReqIds |-> Vacant]
    /\ aliases = [alias \in TrackAliases |-> NoRequest]
    /\ publishes = {}
    /\ broadcasts = 0
    /\ broadcastTasks = 0
    /\ tracks = [id \in ReqIds |-> NoTrack]
    /\ subTasks = {}
    /\ subNextId = 0
    /\ streams = [s \in StreamIds |-> NoStream]
    /\ subRun = "running"
    /\ subSent = NoMessage
    /\ consumers = [id \in ReqIds |-> 0]
    /\ requested = 0

SubIdle == subOrigin = TRUE /\ SubStart

CodecStart ==
    /\ codecWire = <<>>
    /\ codecOut = NotDecoded
    /\ codecPc = "start"

\* The value of the codec in the specifications of the other parts.
CodecIdle == codecIn = CodecInput(I8Value(0), LiteDraft02) /\ CodecStart

OriginStart ==
    /\ originActive = [path \in Paths |-> NoBroadcast]
    /\ originNext = 1
    /\ originConsumer = [made |-> FALSE, queue |-> <<>>]
    /\ announced = <<>>

FfiStart ==
    /\ ffiCode = 0
    /\ ffiPc = "call"

\* The value of the FFI call in the specifications of the other parts.
FfiIdle == ffiRet = RetUnit /\ FfiStart

\* Control::new, control.rs:25-40
ReqStart ==
    /\ request_id_next = FirstRequestId(reqClient)
    /\ reqPc = [t \in ReqTasks |-> "idle"]
    /\ reqNotified = [t \in ReqTasks |-> FALSE]
    /\ reqResult = [t \in ReqTasks |-> NoResult]
    /\ reqHanded = {}
    /\ reqClosed = FALSE

\* The value of the request ids in the specifications of the other parts.
ReqIdle == reqClient = TRUE /\ request_id_max = 0 /\ ReqStart

\* MetricsTracker::default and the connections not yet run.
RelayIdle ==
    /\ active_connections = 0
    /\ active_subscribers = 0
    /\ connection_errors = 0
    /\ connPc = [c \in Conns |-> "new"]
    /\ connSubscriber = [c \in Conns |-> FALSE]
    /\ connResult = [c \in Conns |-> "none"]

\* Session::default and the tasks not yet spawned.
TaskIdle ==
    /\ taskSlab = SlabNew
    /\ taskPc = [t \in SessionTasks |-> "none"]
    /\ taskId = [t \in SessionTasks |-> NoId]
    /\ taskRes = [t \in SessionTasks |-> "none"]
    /\ taskHeld = [t \in SessionTasks |-> FALSE]

\* Reader::new and a stream on which nothing was written; nothing read.
ReadStart ==
    /\ rdStream = [pending |-> <<>>, next |-> Len(rdBuffer) + 1, end |-> "open"]
    /\ rdBuf = <<>>
    /\ rdPc = "call"
    /\ rdResult = "none"
    /\ rdLast = "none"

\* The value of the reader in the specifications of the other parts.
ReadIdle == rdBuffer = <<>> /\ rdSize = 0 /\ ReadStart

PrioInit == PrioStart /\ hsOffer = VERSIONS /\ HsStart /\ CtlStart /\ SubIdle /\ OriginStart /\ CodecIdle /\ FfiIdle /\ ReqIdle /\ RelayIdle /\ TaskIdle /\ ReadIdle

HsInit == PrioStart /\ hsOffer \in Offers /\ HsStart /\ CtlStart /\ SubIdle /\ OriginStart /\ CodecIdle /\ FfiIdle /\ ReqIdle /\ RelayIdle /\ TaskIdle /\ ReadIdle

CtlInit == PrioStart /\ hsOffer = VERSIONS /\ HsStart /\ CtlStart /\ SubIdle /\ OriginStart /\ CodecIdle /\ FfiIdle /\ ReqIdle /\ RelayIdle /\ TaskIdle /\ ReadIdle


SpecPriority == PrioInit /\ [][PrioNext]_vars

SpecHandshake == HsInit /\ [][HsNext]_vars

SpecControl == CtlInit /\ [][CtlNext]_vars

SubscribeInit == PrioStart /\ hsOffer = VERSIONS /\ HsStart /\ CtlStart /\ SubIdle /\ OriginStart /\ CodecIdle /\ FfiIdle /\ ReqIdle /\ RelayIdle /\ TaskIdle /\ ReadIdle

GroupInit == PrioStart /\ hsOffer = VERSIONS /\ HsStart /\ CtlStart /\ SubIdle /\ OriginStart /\ CodecIdle /\ FfiIdle /\ ReqIdle /\ RelayIdle /\ TaskIdle /\ ReadIdle

StreamsInit == PrioStart /\ hsOffer = VERSIONS /\ HsStart /\ CtlStart /\ SubIdle /\ OriginStart /\ CodecIdle /\ FfiIdle /\ ReqIdle /\ RelayIdle /\ TaskIdle /\ ReadIdle

OriginInit == PrioStart /\ hsOffer = VERSIONS /\ HsStart /\ CtlStart /\ SubIdle /\ OriginStart /\ CodecIdle /\ FfiIdle /\ ReqIdle /\ RelayIdle /\ TaskIdle /\ ReadIdle

SpecOrigin == OriginInit /\ [][OriginNext]_vars

SessionInit == PrioStart /\ hsOffer = VERSIONS /\ HsStart /\ CtlStart /\ SubIdle /\ OriginStart /\ CodecIdle /\ FfiIdle /\ ReqIdle /\ RelayIdle /\ TaskIdle /\ ReadIdle

SpecSession == SessionInit /\ [][SessionNext]_vars /\ SessionFairness

CodecInit ==
    PrioStart /\ hsOffer = VERSIONS /\ HsStart /\ CtlStart /\ SubIdle /\ OriginStart
        /\ codecIn \in CodecInputs /\ CodecStart /\ FfiIdle /\ ReqIdle /\ RelayIdle /\ TaskIdle /\ ReadIdle

SpecCodec == CodecInit /\ [][CodecNext]_vars

FfiInit ==
    PrioStart /\ hsOffer = VERSIONS /\ HsStart /\ CtlStart /\ SubIdle /\ OriginStart
        /\ CodecIdle /\ ffiRet \in Rets /\ FfiStart /\ ReqIdle /\ RelayIdle /\ TaskIdle /\ ReadIdle

SpecFfi == FfiInit /\ [][FfiNext]_vars

RequestInit ==
    PrioStart /\ hsOffer = VERSIONS /\ HsStart /\ CtlStart /\ SubIdle /\ OriginStart
        /\ CodecIdle /\ FfiIdle
        /\ reqClient \in BOOLEAN /\ request_id_max \in Limits /\ ReqStart /\ RelayIdle /\ TaskIdle /\ ReadIdle

SpecRequestIds == RequestInit /\ [][RequestNext]_vars

SpecRequestWait == RequestInit /\ [][RequestNext]_vars /\ RequestFairness

AliasInit == PrioStart /\ hsOffer = VERSIONS /\ HsStart /\ CtlStart /\ SubIdle /\ OriginStart /\ CodecIdle /\ FfiIdle /\ ReqIdle /\ RelayIdle /\ TaskIdle /\ ReadIdle

SpecAlias == AliasInit /\ [][AliasNext]_vars

PublishInit ==
    PrioStart /\ hsOffer = VERSIONS /\ HsStart /\ CtlStart
        /\ subOrigin \in BOOLEAN /\ SubStart /\ OriginStart
        /\ CodecIdle /\ FfiIdle /\ ReqIdle /\ RelayIdle /\ TaskIdle /\ ReadIdle

SpecPublish == PublishInit /\ [][PublishNext]_vars

RelayInit ==
    PrioStart /\ hsOffer = VERSIONS /\ HsStart /\ CtlStart /\ SubIdle /\ OriginStart
        /\ CodecIdle /\ FfiIdle /\ ReqIdle /\ RelayIdle /\ TaskIdle /\ ReadIdle

SpecRelay == RelayInit /\ [][RelayNext]_vars

TaskInit ==
    PrioStart /\ hsOffer = VERSIONS /\ HsStart /\ CtlStart /\ SubIdle /\ OriginStart
        /\ CodecIdle /\ FfiIdle /\ ReqIdle /\ RelayIdle /\ TaskIdle /\ ReadIdle

SpecTasks == TaskInit /\ [][TaskNext]_vars

ReadInit ==
    PrioStart /\ hsOffer = VERSIONS /\ HsStart /\ CtlStart /\ SubIdle /\ OriginStart
        /\ CodecIdle /\ FfiIdle /\ ReqIdle /\ RelayIdle /\ TaskIdle
        /\ rdBuffer \in {Bytes(1, n) : n \in 0..MaxBuffered}
        /\ rdSize \in 0..MaxSize
        /\ ReadStart

SpecReader == ReadInit /\ [][ReadNext]_vars

SpecReaderLive == ReadInit /\ [][ReadNext]_vars /\ ReadFairness

SpecSubscribe == SubscribeInit /\ [][SubscribeNext]_vars

SpecGroup == GroupInit /\ [][GroupNext]_vars

SpecStreams == StreamsInit /\ [][StreamsNext]_vars

====
